---- MODULE Spec2Model ----
(***************************************************************************)
(* Model of the dividend-capture calculation engine:                       *)
(*   - calculateSGXMarginCosts      (SGX margin cost calculator)           *)
(*   - calculatePnLForOffsets       (per-event P&L formula)                *)
(*   - computeAutoTradeHighlights   (auto-trade highlighter)               *)
(*                                                                         *)
(* JavaScript values are modelled as records [t, n, d]:                    *)
(*   t = "num"   the finite number n/d (d > 0, lowest terms)               *)
(*   t = "nan"   NaN            t = "undef"  undefined (absent)            *)
(*   t = "null"  null           t = "inf"    +Infinity (n = 1) / -Infinity *)
(*   t = "str"   a string; d > 0: a decimal numeral denoting n/d,          *)
(*               d = 0: a string with no numeric prefix ("abc")            *)
(* Finite numbers are exact rationals: double rounding error is not        *)
(* modelled, decimal rounding by toFixed is.                               *)
(***************************************************************************)
EXTENDS Integers, Sequences, FiniteSets, TLC

VARIABLES
    pc,      \* "idle", or the function called last: "margin", "pnl", "highlights",
             \* "validated", "sanitized", "unsanitized",
             \* or "pnlAgain", "highlightsAgain" after the same call was made again,
             \* or "page" once the analyzer page has handled an event,
             \* or "api" once the data module has been called
    mArgs,   \* arguments of the last calculateSGXMarginCosts call
    mRet,    \* its outcome (a breakdown or a thrown error)
    pArgs,   \* arguments of the last calculatePnLForOffsets call
    pRet,    \* its outcome (a breakdown or null)
    hArgs,   \* arguments of the last computeAutoTradeHighlights call
    hRet,    \* its outcome
    rRet,    \* the outcome of the same call made a second time
    vRet,    \* the outcome of the last validateInputs call
    gridData,       \* analyzer page: the rows shown in the grid
    selectedCells,  \* analyzer page: row id -> the buy and sell offsets selected
    currentParams,  \* analyzer page: the parameters of the last request, or null
    loading,        \* analyzer page: the loading flag
    inflight,       \* analyzer page: the fetches that have not settled
    issued,         \* analyzer page: the number of fetches started
    snapshotCache,    \* data module: 0 (null) or the load whose data is cached
    snapshotPromise,  \* data module: 0 (null) or the load whose promise is held
    loads,            \* data module: the loads started, each with its stage
    tickerCatalogueCache,  \* data module: 0 (null) or the array that is cached
    storage,          \* browser storage: the catalogue stored, if any
    arrays,           \* the arrays created, by reference; each holds its items
    calls             \* the fetchTickerCatalogue calls made

\* the state of the function calls and the state of the analyzer page
callVars == <<mArgs, mRet, pArgs, pRet, hArgs, hRet, rRet, vRet>>
pageVars == <<gridData, selectedCells, currentParams, loading, inflight, issued>>
snapshotVars == <<snapshotCache, snapshotPromise, loads>>
catalogueVars == <<tickerCatalogueCache, storage, arrays, calls>>

vars == <<pc, callVars, pageVars, snapshotVars, catalogueVars>>

----------------------------------------------------------------------------
(* Exact rational arithmetic for the JS number type (finite values).       *)

Abs(i) == IF i < 0 THEN -i ELSE i

RECURSIVE GCD(_, _)
GCD(a, b) == IF b = 0 THEN a ELSE GCD(b, a % b)

Pow10(k) == CASE k = 0 -> 1 [] k = 1 -> 10 [] k = 2 -> 100
              [] k = 3 -> 1000 [] k = 4 -> 10000

\* the number n/d in lowest terms with a positive denominator
Q(n, d) ==
    LET s == IF d < 0 THEN -1 ELSE 1
        g == GCD(Abs(n), Abs(d))
    IN  [t |-> "num", n |-> (s * n) \div g, d |-> (s * d) \div g]

Z(i) == [t |-> "num", n |-> i, d |-> 1]

NaN == [t |-> "nan", n |-> 0, d |-> 1]
Undefined == [t |-> "undef", n |-> 0, d |-> 1]
Null == [t |-> "null", n |-> 0, d |-> 1]
PosInf == [t |-> "inf", n |-> 1, d |-> 1]
NegInf == [t |-> "inf", n |-> -1, d |-> 1]
StrNum(n, d) == [t |-> "str", n |-> Q(n, d).n, d |-> Q(n, d).d]
StrText == [t |-> "str", n |-> 0, d |-> 0]
StrEmpty == [t |-> "str", n |-> 0, d |-> -1]

IsNum(x) == x.t = "num"

Neg(a) == [t |-> "num", n |-> -a.n, d |-> a.d]

Add(a, b) ==
    LET g == GCD(a.d, b.d)
        l == (a.d \div g) * b.d
    IN  Q(a.n * (l \div a.d) + b.n * (l \div b.d), l)

Sub(a, b) == Add(a, Neg(b))

Mul(a, b) ==
    LET g1 == GCD(Abs(a.n), b.d)
        g2 == GCD(Abs(b.n), a.d)
    IN  IF a.n = 0 \/ b.n = 0 THEN Z(0)
        ELSE Q((a.n \div g1) * (b.n \div g2), (a.d \div g2) * (b.d \div g1))

\* b # 0
Div(a, b) == Mul(a, Q(b.d, b.n))

Lt(a, b) == Sub(a, b).n < 0
Le(a, b) == Sub(a, b).n <= 0
Max(a, b) == IF Lt(a, b) THEN b ELSE a
AbsQ(a) == IF a.n < 0 THEN Neg(a) ELSE a

\* Math.floor of a finite number, as an integer
Floor(a) == a.n \div a.d

----------------------------------------------------------------------------
(* JS conversions and tests.                                               *)

\* parseFloat(x)
ParseFloat(x) ==
    CASE x.t = "num" -> x
      [] x.t = "inf" -> x
      [] x.t = "str" -> IF x.d > 0 THEN [t |-> "num", n |-> x.n, d |-> x.d] ELSE NaN
      [] OTHER -> NaN

\* Number(x)
ToNumber(x) ==
    CASE x.t = "num" -> x
      [] x.t = "inf" -> x
      [] x.t = "nan" -> NaN
      [] x.t = "undef" -> NaN
      [] x.t = "null" -> Z(0)
      [] x.t = "str" -> IF x.d > 0 THEN [t |-> "num", n |-> x.n, d |-> x.d] ELSE NaN

\* Number.isFinite(x): no coercion
IsFinite(x) == x.t = "num"

\* !x
Falsy(x) ==
    \/ x.t \in {"nan", "undef", "null"}
    \/ x.t = "num" /\ x.n = 0
    \/ x = StrEmpty

\* x <= 0, x < 0, x > 1 with JS coercion of the left operand
LeZero(x) ==
    LET v == ToNumber(x) IN
    \/ v.t = "num" /\ v.n <= 0
    \/ v.t = "inf" /\ v.n < 0

LtZero(x) ==
    LET v == ToNumber(x) IN
    \/ v.t = "num" /\ v.n < 0
    \/ v.t = "inf" /\ v.n < 0

GtOne(x) ==
    LET v == ToNumber(x) IN
    \/ v.t = "num" /\ v.n > v.d
    \/ v.t = "inf" /\ v.n > 0

\* parseFloat(x.toFixed(k)) for a finite number x: the nearest multiple of
\* 10^-k, the larger magnitude when two are equally near
ToFixed(x, k) ==
    LET m == Mul(AbsQ(x), Z(Pow10(k)))
        r == (m.n \div m.d) + (IF 2 * (m.n % m.d) >= m.d THEN 1 ELSE 0)
    IN  Q(IF x.n < 0 THEN -r ELSE r, Pow10(k))

----------------------------------------------------------------------------
(* calculateSGXMarginCosts                                                 *)

DEFAULT_INTEREST_RATE == Q(6, 100)
DEFAULT_FEE_RATE == Q(127, 100000)
DEFAULT_MINIMUM_FEE == Q(410, 100)
DAYS_PER_YEAR == 365

\* a parameter default applies when the argument is undefined
OrDefault(x, dflt) == IF x.t = "undef" THEN dflt ELSE x

\* parseInt of a finite number >= 0
ParseInt(x) == Z(Floor(x))

Thrown(msg) ==
    [ok |-> FALSE, err |-> msg,
     tradeValue |-> Undefined, marginRatio |-> Undefined, borrowed |-> Undefined,
     holdingDays |-> Undefined, dailyInterest |-> Undefined,
     financingCost |-> Undefined, openFees |-> Undefined, closeFees |-> Undefined,
     totalCost |-> Undefined, totalCostPercentage |-> Undefined,
     breakdown |-> [openFees |-> Undefined, closeFees |-> Undefined,
                    marginInterest |-> Undefined, totalFees |-> Undefined,
                    totalInterest |-> Undefined]]

\* the three input checks of the function
MarginInvalidTradeValue(tradeValue) == Falsy(tradeValue) \/ LeZero(tradeValue)

MarginInvalidRatio(marginRatio) ==
    Falsy(marginRatio) \/ LtZero(marginRatio) \/ GtOne(marginRatio)

\* mutant: negative holding days are let through
MarginInvalidDays_NoSign(holdingDays) == ~IsFinite(ToNumber(holdingDays))

MarginInvalidDays(holdingDays) ==
    LET normalizedHoldingDays == ToNumber(holdingDays)
    IN  ~IsFinite(normalizedHoldingDays) \/ normalizedHoldingDays.n < 0

\* the unrounded values computed by the body
MarginOpenFee(tradeValue, feeRate, minimumFee) ==
    Max(minimumFee, Mul(tradeValue, feeRate))

MarginBorrowed(tradeValue, marginRatio) == Mul(tradeValue, marginRatio)

\* mutant: a 360-day year
MarginDailyInterest_360(tradeValue, marginRatio, marginInterestRate) ==
    Div(Mul(Mul(tradeValue, marginRatio), marginInterestRate), Z(360))

MarginDailyInterest(tradeValue, marginRatio, marginInterestRate) ==
    Div(Mul(MarginBorrowed(tradeValue, marginRatio), marginInterestRate),
        Z(DAYS_PER_YEAR))

MarginFinancingCost(tradeValue, marginRatio, days, marginInterestRate) ==
    Mul(MarginDailyInterest(tradeValue, marginRatio, marginInterestRate), days)

MarginTotalFees(openFee, closeFee) == Add(openFee, closeFee)

\* mutant: the total leaves out the financing cost
MarginTotalCost_NoFinancing(totalFees, financingCost) == totalFees

MarginTotalCost(totalFees, financingCost) == Add(totalFees, financingCost)

calculateSGXMarginCosts(tradeValue, marginRatio, holdingDays, rateArg, feeArg, minArg) ==
    LET marginInterestRate == OrDefault(rateArg, DEFAULT_INTEREST_RATE)
        feeRate == OrDefault(feeArg, DEFAULT_FEE_RATE)
        minimumFee == OrDefault(minArg, DEFAULT_MINIMUM_FEE)
    IN
    IF MarginInvalidTradeValue(tradeValue)
    THEN Thrown("Trade value must be greater than 0")
    ELSE IF MarginInvalidRatio(marginRatio)
    THEN Thrown("Margin ratio must be between 0 and 1")
    ELSE IF MarginInvalidDays(holdingDays)
    THEN Thrown("Holding days must be greater than or equal to 0")
    ELSE
    LET normalizedHoldingDays == ToNumber(holdingDays)
        openFee == MarginOpenFee(tradeValue, feeRate, minimumFee)
        closeFee == MarginOpenFee(tradeValue, feeRate, minimumFee)
        borrowed == MarginBorrowed(tradeValue, marginRatio)
        dailyInterest == MarginDailyInterest(tradeValue, marginRatio, marginInterestRate)
        financingCost == MarginFinancingCost(tradeValue, marginRatio,
                                             normalizedHoldingDays, marginInterestRate)
        totalFees == MarginTotalFees(openFee, closeFee)
        totalCost == MarginTotalCost(totalFees, financingCost)
        totalCostPercentage == Mul(Div(totalCost, tradeValue), Z(100))
    IN  [ok |-> TRUE, err |-> "",
         tradeValue |-> ToFixed(tradeValue, 2),
         marginRatio |-> ToFixed(marginRatio, 4),
         borrowed |-> ToFixed(borrowed, 2),
         holdingDays |-> ParseInt(normalizedHoldingDays),
         dailyInterest |-> ToFixed(dailyInterest, 4),
         financingCost |-> ToFixed(financingCost, 2),
         openFees |-> ToFixed(openFee, 2),
         closeFees |-> ToFixed(closeFee, 2),
         totalCost |-> ToFixed(totalCost, 2),
         totalCostPercentage |-> ToFixed(totalCostPercentage, 4),
         breakdown |-> [openFees |-> ToFixed(openFee, 2),
                        closeFees |-> ToFixed(closeFee, 2),
                        marginInterest |-> ToFixed(financingCost, 2),
                        totalFees |-> ToFixed(totalFees, 2),
                        totalInterest |-> ToFixed(financingCost, 2)]]

\* parseInt(x): the integer part of a number or numeral, NaN for anything else
ParseIntOf(x) ==
    IF x.t = "num" \/ (x.t = "str" /\ x.d > 0)
    THEN Z(IF x.n >= 0 THEN x.n \div x.d ELSE -((-x.n) \div x.d))
    ELSE NaN

\* isNaN(parsed) || parsed <= 0, and isNaN(parsed) || parsed < 0
NaNOrLeZero(parsed) == parsed.t = "nan" \/ LeZero(parsed)
NaNOrLtZero(parsed) == parsed.t = "nan" \/ LtZero(parsed)

\* the check of the margin ratio in validateInputs
ValidateRatioError(parsedMarginRatio) ==
    NaNOrLtZero(parsedMarginRatio) \/ GtOne(parsedMarginRatio)

\* the keys of the errors object
ValidateErrors(sanitized) ==
    {f \in {"tradeValue"} : NaNOrLeZero(sanitized.tradeValue)}
    \cup {f \in {"marginRatio"} : ValidateRatioError(sanitized.marginRatio)}
    \cup {f \in {"holdingDays"} : NaNOrLtZero(sanitized.holdingDays)}
    \cup {f \in {"marginInterestRate"} : NaNOrLtZero(sanitized.marginInterestRate)}
    \cup {f \in {"feeRate"} : NaNOrLtZero(sanitized.feeRate)}
    \cup {f \in {"minimumFee"} : NaNOrLtZero(sanitized.minimumFee)}

\* the returned object, from the parsed values
ValidationOf(sanitized) ==
    [isValid |-> ValidateErrors(sanitized) = {},
     errors |-> ValidateErrors(sanitized),
     sanitized |-> sanitized]

validateInputs(inputs) ==
    ValidationOf(
        [tradeValue |-> ParseFloat(inputs.tradeValue),
         marginRatio |-> ParseFloat(inputs.marginRatio),
         holdingDays |-> ParseIntOf(inputs.holdingDays),
         marginInterestRate |->
             ParseFloat(OrDefault(inputs.marginInterestRate, DEFAULT_INTEREST_RATE)),
         feeRate |-> ParseFloat(OrDefault(inputs.feeRate, DEFAULT_FEE_RATE)),
         minimumFee |-> ParseFloat(OrDefault(inputs.minimumFee, DEFAULT_MINIMUM_FEE))])

\* getExampleCalculation()
getExampleCalculation ==
    calculateSGXMarginCosts(Z(1000), Q(1, 2), Z(1), Undefined, Undefined, Undefined)

----------------------------------------------------------------------------
(* calculatePnLForOffsets                                                  *)

BROKER_FEE_RATE == Q(127, 100000)
MINIMUM_FEE == Q(410, 100)
DEFAULT_MARGIN_AMOUNT == Z(50000)
PNL_MARGIN_RATIO == Q(1, 2)
PNL_INTEREST_RATE == Q(6, 100)

\* mutant: only a non-finite amount is replaced by the default
normaliseMarginAmount_KeepNonPositive(value) ==
    LET numeric == IF value.t \in {"num", "nan", "inf"} THEN value ELSE ParseFloat(value)
    IN  IF ~IsFinite(numeric) THEN Z(50000) ELSE numeric

\* normaliseMarginAmount(value)
normaliseMarginAmount(value) ==
    LET numeric == IF value.t \in {"num", "nan", "inf"} THEN value ELSE ParseFloat(value)
    IN  IF ~IsFinite(numeric) \/ numeric.n <= 0
        THEN DEFAULT_MARGIN_AMOUNT
        ELSE numeric

\* `D${buyOffset}`
BuyKey(buyOffset) == "D" \o ToString(buyOffset)

\* `D${sellOffset >= 0 ? '+' : ''}${sellOffset}`
SellKey(sellOffset) ==
    "D" \o (IF sellOffset >= 0 THEN "+" ELSE "") \o ToString(sellOffset)

\* row?.prices?.[key]
PriceAt(row, key) ==
    IF row.nul \/ ~row.hasPrices THEN Undefined
    ELSE IF key \in DOMAIN row.prices THEN row.prices[key]
    ELSE Undefined

\* row?.dividendPerShare || 0
DividendAmount(row) ==
    IF row.nul \/ Falsy(row.dividendPerShare) THEN Z(0) ELSE row.dividendPerShare

\* the event object after a call: row?.id, row?.exDate, row?.dividendPerShare
\* and row?.prices?.[key] are read, and no field of the row is assigned
EventAfter(row) ==
    [nul |-> row.nul, hasPrices |-> row.hasPrices, id |-> row.id,
     exDate |-> row.exDate, dividendPerShare |-> row.dividendPerShare,
     prices |-> row.prices]

NullPnL ==
    [nul |-> TRUE, quantity |-> Undefined, dividendReceived |-> Undefined,
     priceDifferenceValue |-> Undefined, tradeFee |-> Undefined,
     marginFee |-> Undefined, totalCost |-> Undefined, netPercentage |-> Undefined,
     buyPrice |-> Undefined, sellPrice |-> Undefined, holdingDays |-> Undefined,
     perLegFee |-> Undefined]

\* mutant: a buy on the ex-date itself is let through
PnLBadOffsets_BuyOnExDate(row, buyOffset, sellOffset) ==
    row.nul \/ buyOffset > 0 \/ sellOffset <= 0

\* the guard of the first early return
PnLBadOffsets(row, buyOffset, sellOffset) ==
    row.nul \/ buyOffset >= 0 \/ sellOffset <= 0

\* mutant: the sell price is not checked
PnLBadPrices_IgnoreSell(buyPrice, sellPrice) ==
    ~IsFinite(buyPrice) \/ buyPrice.n <= 0

\* the guard of the second early return
PnLBadPrices(buyPrice, sellPrice) ==
    ~IsFinite(buyPrice) \/ ~IsFinite(sellPrice) \/ buyPrice.n <= 0

\* mutant: the quantity of the call before is remembered and reused
PnLQuantity_Remembered(marginAmount, buyPrice) ==
    IF pc = "pnl" /\ ~pRet.nul THEN pRet.quantity.n + 1
    ELSE Floor(Div(marginAmount, buyPrice))

\* Math.floor(marginAmount / buyPrice)
PnLQuantity(marginAmount, buyPrice) == Floor(Div(marginAmount, buyPrice))

\* marginCosts?.financingCost, or the catch block's estimate when the call threw
FinancingCostOr(marginCosts, marginAmount, holdingDays) ==
    IF marginCosts.ok
    THEN marginCosts.financingCost
    ELSE Div(Mul(Mul(marginAmount, PNL_INTEREST_RATE), Z(holdingDays)),
             Z(DAYS_PER_YEAR))

\* mutant: the calculator is asked for a trade without margin, which it rejects
PnLMarginFee_NoMargin(marginAmount, holdingDays) ==
    FinancingCostOr(calculateSGXMarginCosts(marginAmount, Z(0),
                                            Z(holdingDays), PNL_INTEREST_RATE,
                                            BROKER_FEE_RATE, MINIMUM_FEE),
                    marginAmount, holdingDays)

\* mutant: the calculator is asked for a fully financed trade
PnLMarginFee_FullRatio(marginAmount, holdingDays) ==
    FinancingCostOr(calculateSGXMarginCosts(marginAmount, Z(1),
                                            Z(holdingDays), PNL_INTEREST_RATE,
                                            BROKER_FEE_RATE, MINIMUM_FEE),
                    marginAmount, holdingDays)

\* the try/catch around the margin cost calculator
PnLMarginFee(marginAmount, holdingDays) ==
    FinancingCostOr(calculateSGXMarginCosts(marginAmount, PNL_MARGIN_RATIO,
                                            Z(holdingDays), PNL_INTEREST_RATE,
                                            BROKER_FEE_RATE, MINIMUM_FEE),
                    marginAmount, holdingDays)

\* mutant: the magnitude of a negative price difference is added
PnLTotalCost_AddsLoss(dividendReceived, totalTradeFee, marginFee, priceDifferenceValue) ==
    Add(Sub(Sub(dividendReceived, totalTradeFee), marginFee), AbsQ(priceDifferenceValue))

\* the sign handling of the price difference
PnLTotalCost(dividendReceived, totalTradeFee, marginFee, priceDifferenceValue) ==
    LET base == Sub(Sub(dividendReceived, totalTradeFee), marginFee)
    IN  IF priceDifferenceValue.n >= 0
        THEN Add(base, priceDifferenceValue)
        ELSE Sub(base, AbsQ(priceDifferenceValue))

\* the values computed once a quantity is known, before the totals
PnLLegs(dividendAmount, buyPrice, sellPrice, holdingDays, marginAmount, quantity) ==
    [quantity |-> Z(quantity), buyPrice |-> buyPrice, sellPrice |-> sellPrice,
     holdingDays |-> Z(holdingDays),
     perLegFee |-> Max(MINIMUM_FEE, Mul(marginAmount, BROKER_FEE_RATE)),
     dividendReceived |-> Mul(dividendAmount, Z(quantity)),
     priceDifferenceValue |-> Mul(Sub(sellPrice, buyPrice), Z(quantity)),
     marginFee |-> PnLMarginFee(marginAmount, holdingDays)]

\* the returned object
PnLBreakdown(legs, marginAmount, totalTradeFee, totalCost) ==
    [nul |-> FALSE, quantity |-> legs.quantity,
     dividendReceived |-> legs.dividendReceived,
     priceDifferenceValue |-> legs.priceDifferenceValue,
     tradeFee |-> totalTradeFee, marginFee |-> legs.marginFee,
     totalCost |-> totalCost,
     netPercentage |-> Mul(Div(totalCost, marginAmount), Z(100)),
     buyPrice |-> legs.buyPrice, sellPrice |-> legs.sellPrice,
     holdingDays |-> legs.holdingDays, perLegFee |-> legs.perLegFee]

\* totalCost from the legs and the fee of both legs
PnLTotals(legs, marginAmount, totalTradeFee) ==
    PnLBreakdown(legs, marginAmount, totalTradeFee,
                 PnLTotalCost(legs.dividendReceived, totalTradeFee, legs.marginFee,
                              legs.priceDifferenceValue))

\* totalTradeFee = perLegFee * 2
PnLFromLegs(legs, marginAmount) ==
    PnLTotals(legs, marginAmount, Mul(legs.perLegFee, Z(2)))

\* mutant: a quantity of zero is let through
PnLForQuantity_AllowZero(dividendAmount, buyPrice, sellPrice, holdingDays, marginAmount, quantity) ==
    IF quantity < 0 THEN NullPnL
    ELSE PnLFromLegs(PnLLegs(dividendAmount, buyPrice, sellPrice, holdingDays,
                             marginAmount, quantity),
                     marginAmount)

\* the third early return: the quantity is not positive
PnLForQuantity(dividendAmount, buyPrice, sellPrice, holdingDays, marginAmount, quantity) ==
    IF quantity <= 0 THEN NullPnL
    ELSE PnLFromLegs(PnLLegs(dividendAmount, buyPrice, sellPrice, holdingDays,
                             marginAmount, quantity),
                     marginAmount)

\* the second early return: a price is missing or the buy price is not positive
PnLForPrices(dividendAmount, buyPrice, sellPrice, holdingDays, marginAmount) ==
    IF PnLBadPrices(buyPrice, sellPrice) THEN NullPnL
    ELSE PnLForQuantity(dividendAmount, buyPrice, sellPrice, holdingDays, marginAmount,
                        PnLQuantity(marginAmount, buyPrice))

calculatePnLForOffsets(row, buyOffset, sellOffset, marginAmountInput) ==
    IF PnLBadOffsets(row, buyOffset, sellOffset) THEN NullPnL
    ELSE PnLForPrices(DividendAmount(row),
                      ParseFloat(PriceAt(row, BuyKey(buyOffset))),
                      ParseFloat(PriceAt(row, SellKey(sellOffset))),
                      Abs(sellOffset - buyOffset),
                      normaliseMarginAmount(marginAmountInput))

----------------------------------------------------------------------------
(* computeAutoTradeHighlights                                              *)
(* An event id is [k, segs]: k = "str" a string, given as its segments     *)
(* between '-' characters ("bec-1" is <<"bec", "1">>, "" is <<"">>);       *)
(* k = "undef" no id; k = "num" an id that is a non-zero number.           *)

MIN_OFFSET == -10
MAX_OFFSET == 30
DEFAULT_MAX_ROWS == 3
TOP_TRADES == 3

\* PRICE_OFFSETS: -10 .. 30 in ascending order
PRICE_OFFSETS == [i \in 1 .. (MAX_OFFSET - MIN_OFFSET + 1) |-> i + MIN_OFFSET - 1]

StrId(segs) == [k |-> "str", segs |-> segs]
NoId == [k |-> "undef", segs |-> <<>>]
NumberId == [k |-> "num", segs |-> <<>>]

\* row?.id
RowId(row) == IF row.nul THEN NoId ELSE row.id

\* !rowId
IdFalsy(id) == id.k = "undef" \/ (id.k = "str" /\ id.segs = <<"">>)

\* String.prototype.toUpperCase on the symbols of the model
ToUpperCase(str) ==
    CASE str = "bec" -> "BEC"
      [] str = "d05" -> "D05"
      [] OTHER -> str

\* rowId.split('-')[0]?.toUpperCase(), for a string id
TickerOf(id) == ToUpperCase(Head(id.segs))

\* the Set built from the targetTickers option; {} stands for no filter
TargetSet(targetTickers) == {ToUpperCase(symbol) : symbol \in targetTickers}

\* raw !== undefined && raw !== null ? parseFloat(raw) : null
ScanPrice(raw) == IF raw.t \in {"undef", "null"} THEN Null ELSE ParseFloat(raw)

NoPoint == [found |-> FALSE, offset |-> 0, price |-> Undefined]

\* mutant: the first available buy price is kept
LowestBuyStep_First(lowestBuy, row, offset) ==
    LET price == ScanPrice(PriceAt(row, "D" \o ToString(offset)))
    IN  IF IsFinite(price) /\ ~lowestBuy.found
        THEN [found |-> TRUE, offset |-> offset, price |-> price]
        ELSE lowestBuy

\* mutant: among equal lowest prices the one found first is kept
LowestBuyStep_NoTieBreak(lowestBuy, row, offset) ==
    LET price == ScanPrice(PriceAt(row, "D" \o ToString(offset)))
    IN  IF IsFinite(price) /\ (~lowestBuy.found \/ Lt(price, lowestBuy.price))
        THEN [found |-> TRUE, offset |-> offset, price |-> price]
        ELSE lowestBuy

\* one step of the scan over a negative offset
LowestBuyStep(lowestBuy, row, offset) ==
    LET price == ScanPrice(PriceAt(row, "D" \o ToString(offset)))
    IN  IF IsFinite(price)
           /\ (\/ ~lowestBuy.found
               \/ Lt(price, lowestBuy.price)
               \/ (price = lowestBuy.price /\ offset > lowestBuy.offset))
        THEN [found |-> TRUE, offset |-> offset, price |-> price]
        ELSE lowestBuy

\* mutant: among equal highest prices the one found last is kept
HighestSellStep_LastOnTie(highestSell, row, offset) ==
    LET price == ScanPrice(PriceAt(row, "D+" \o ToString(offset)))
    IN  IF IsFinite(price) /\ (~highestSell.found \/ ~Lt(price, highestSell.price))
        THEN [found |-> TRUE, offset |-> offset, price |-> price]
        ELSE highestSell

\* one step of the scan over a positive offset
HighestSellStep(highestSell, row, offset) ==
    LET price == ScanPrice(PriceAt(row, "D+" \o ToString(offset)))
    IN  IF IsFinite(price)
           /\ (\/ ~highestSell.found
               \/ Lt(highestSell.price, price)
               \/ (price = highestSell.price /\ offset < highestSell.offset))
        THEN [found |-> TRUE, offset |-> offset, price |-> price]
        ELSE highestSell

\* PRICE_OFFSETS.forEach: the scan state after the first i offsets
RECURSIVE ScanOffsets(_, _)
ScanOffsets(row, i) ==
    IF i = 0 THEN [lowestBuy |-> NoPoint, highestSell |-> NoPoint]
    ELSE LET prev == ScanOffsets(row, i - 1)
             offset == PRICE_OFFSETS[i]
         IN  IF offset < 0
             THEN [prev EXCEPT !.lowestBuy = LowestBuyStep(prev.lowestBuy, row, offset)]
             ELSE IF offset > 0
             THEN [prev EXCEPT !.highestSell =
                                  HighestSellStep(prev.highestSell, row, offset)]
             ELSE prev

NoTrade ==
    [found |-> FALSE, rowId |-> NoId, ticker |-> "", exDate |-> "",
     dividendPerShare |-> Undefined, buyOffset |-> 0, sellOffset |-> 0,
     pnl |-> NullPnL]

\* the entry pushed for a row whose scan found lowestBuy and highestSell
TradeEntry(row, lowestBuy, highestSell, trade) ==
    IF trade.nul THEN NoTrade
    ELSE [found |-> TRUE, rowId |-> row.id, ticker |-> TickerOf(row.id),
          exDate |-> row.exDate, dividendPerShare |-> DividendAmount(row),
          buyOffset |-> lowestBuy.offset, sellOffset |-> highestSell.offset,
          pnl |-> trade]

\* if (!lowestBuy || !highestSell) return; then the trade of the two offsets
ScannedTrade(row, lowestBuy, highestSell, marginAmount) ==
    IF lowestBuy.found /\ highestSell.found
    THEN TradeEntry(row, lowestBuy, highestSell,
                    calculatePnLForOffsets(row, lowestBuy.offset, highestSell.offset,
                                           marginAmount))
    ELSE NoTrade

\* the scan result of a row, split into its two sides
TradeOfScan(row, scan, marginAmount) ==
    ScannedTrade(row, scan.lowestBuy, scan.highestSell, marginAmount)

\* the best trade of one event: the lowest buy against the highest sell
BestTrade(row, marginAmount) ==
    TradeOfScan(row, ScanOffsets(row, Len(PRICE_OFFSETS)), marginAmount)

\* the early returns of the per-row callback
RowSkipped(row, targetSet) ==
    \/ IdFalsy(RowId(row))
    \/ TickerOf(RowId(row)) = ""
    \/ (targetSet # {} /\ TickerOf(RowId(row)) \notin targetSet)

\* rowId.split is not a function: an id that is truthy and not a string
RowThrows(row) == RowId(row).k = "num"

\* mutant: an entry is pushed for a row without a best trade too
PushTrade_Always(before, best) == Append(before, best)

\* perTicker.get(ticker).push(...), when the row has a best trade
PushTrade(before, best) == IF best.found THEN Append(before, best) ELSE before

\* the per-row callback: the entries after the row, from those before it
RowCallback(before, row, marginAmount, targetSet) ==
    IF RowSkipped(row, targetSet) THEN before
    ELSE PushTrade(before, BestTrade(row, marginAmount))

\* data.forEach: the entries pushed into perTicker, in data order
RECURSIVE CollectEntries(_, _, _)
CollectEntries(data, marginAmount, targetSet) ==
    IF data = <<>> THEN <<>>
    ELSE RowCallback(CollectEntries(SubSeq(data, 1, Len(data) - 1), marginAmount,
                                    targetSet),
                     data[Len(data)], marginAmount, targetSet)

\* the keys of the perTicker Map in insertion order
RECURSIVE TickerOrder(_)
TickerOrder(entries) ==
    IF entries = <<>> THEN <<>>
    ELSE LET before == TickerOrder(SubSeq(entries, 1, Len(entries) - 1))
             ticker == entries[Len(entries)].ticker
         IN  IF \E i \in 1 .. Len(before) : before[i] = ticker
             THEN before
             ELSE Append(before, ticker)

\* insert e behind every entry whose totalCost is not lower (stable, descending)
RECURSIVE InsertByTotalCost(_, _)
InsertByTotalCost(sorted, e) ==
    IF sorted = <<>> THEN <<e>>
    ELSE IF Lt(Head(sorted).pnl.totalCost, e.pnl.totalCost)
    THEN <<e>> \o sorted
    ELSE <<Head(sorted)>> \o InsertByTotalCost(Tail(sorted), e)

\* entries.sort((a, b) => b.totalCost - a.totalCost)
RECURSIVE SortByTotalCost(_)
SortByTotalCost(entries) ==
    IF entries = <<>> THEN <<>>
    ELSE InsertByTotalCost(SortByTotalCost(SubSeq(entries, 1, Len(entries) - 1)),
                           entries[Len(entries)])

\* mutant: the entries are taken from the end of the array
Slice_FromEnd(seq, end) ==
    LET n == IF end < 0 THEN 0 ELSE IF end > Len(seq) THEN Len(seq) ELSE end
    IN  SubSeq(seq, Len(seq) - n + 1, Len(seq))

\* array.slice(0, end)
Slice(seq, end) ==
    LET stop == IF end < 0 THEN (IF Len(seq) + end < 0 THEN 0 ELSE Len(seq) + end)
                ELSE IF end > Len(seq) THEN Len(seq) ELSE end
    IN  SubSeq(seq, 1, stop)

\* the maxRowsPerTicker option, 3 by default
MaxRows(maxRowsPerTicker) ==
    IF maxRowsPerTicker.t = "undef" THEN DEFAULT_MAX_ROWS ELSE maxRowsPerTicker.n

EntriesOfTicker(entries, ticker) ==
    SelectSeq(entries, LAMBDA e : e.ticker = ticker)

\* perTicker.forEach: the entries kept, ticker by ticker
RECURSIVE KeptEntries(_, _, _)
KeptEntries(entries, tickers, maxRows) ==
    IF tickers = <<>> THEN <<>>
    ELSE Slice(SortByTotalCost(EntriesOfTicker(entries, Head(tickers))), maxRows)
         \o KeptEntries(entries, Tail(tickers), maxRows)

HighlightOf(entry) ==
    [buyOffset |-> entry.buyOffset, sellOffset |-> entry.sellOffset,
     totalCost |-> entry.pnl.totalCost, netPercentage |-> entry.pnl.netPercentage,
     quantity |-> entry.pnl.quantity]

\* highlightMap[entry.rowId] = ...: a later entry of the same id replaces
HighlightMapOf(kept) ==
    [id \in {kept[i].rowId : i \in 1 .. Len(kept)} |->
        LET last == CHOOSE i \in 1 .. Len(kept) :
                        /\ kept[i].rowId = id
                        /\ \A j \in (i + 1) .. Len(kept) : kept[j].rowId # id
        IN  HighlightOf(kept[last])]

RECURSIVE SumOffsets(_, _)
SumOffsets(selected, side) ==
    IF selected = <<>> THEN 0
    ELSE (IF side = "buy" THEN Head(selected).buyOffset ELSE Head(selected).sellOffset)
         + SumOffsets(Tail(selected), side)

\* mutant: the mean is taken over the entries that go into topTrades
AverageOffset_TopThree(selected, side) ==
    IF Len(selected) > 0
    THEN Q(SumOffsets(Slice(selected, TOP_TRADES), side), Len(Slice(selected, TOP_TRADES)))
    ELSE Null

\* count > 0 ? sum / count : null
AverageOffset(selected, side) ==
    IF Len(selected) > 0 THEN Q(SumOffsets(selected, side), Len(selected)) ELSE Null

TopTradeOf(entry) ==
    [ticker |-> entry.ticker, exDate |-> entry.exDate,
     buyOffset |-> entry.buyOffset, sellOffset |-> entry.sellOffset,
     totalCost |-> entry.pnl.totalCost, netPercentage |-> entry.pnl.netPercentage,
     quantity |-> entry.pnl.quantity, dividendPerShare |-> entry.dividendPerShare,
     rowId |-> entry.rowId]

\* mutant: the list itself is put in descending order, as entries.sort does
\* with the per-ticker arrays
DataAfter_SortedInPlace(data) ==
    [i \in 1 .. Len(data) |-> EventAfter(data[Len(data) + 1 - i])]

\* the data array after the call: data.forEach visits the rows in place; the
\* arrays that are pushed to, sorted and sliced are perTicker's and selectedEntries
DataAfter(data) == [i \in 1 .. Len(data) |-> EventAfter(data[i])]

HighlightsThrown ==
    [thrown |-> TRUE, highlightMap |-> <<>>, topTrades |-> <<>>,
     averageBuyOffset |-> Undefined, averageSellOffset |-> Undefined]

\* a row whose id is not a string is reached, with no filter skipping it first
DataThrows(data) == \E i \in 1 .. Len(data) : RowThrows(data[i])

\* perTicker.forEach over the collected entries
KeptOf(entries, maxRows) == KeptEntries(entries, TickerOrder(entries), maxRows)

\* the returned object, from the kept entries, their ranking and its first three
HighlightsResult(kept, selectedEntries, top) ==
    [thrown |-> FALSE,
     highlightMap |-> HighlightMapOf(kept),
     topTrades |-> [i \in 1 .. Len(top) |-> TopTradeOf(top[i])],
     averageBuyOffset |-> AverageOffset(selectedEntries, "buy"),
     averageSellOffset |-> AverageOffset(selectedEntries, "sell")]

RankedHighlights(kept, selectedEntries) ==
    HighlightsResult(kept, selectedEntries, Slice(selectedEntries, TOP_TRADES))

HighlightsOfKept(kept) == RankedHighlights(kept, SortByTotalCost(kept))

computeAutoTradeHighlights(data, marginAmountInput, targetTickers, maxRowsPerTicker) ==
    IF DataThrows(data) THEN HighlightsThrown
    ELSE HighlightsOfKept(KeptOf(CollectEntries(data,
                                                normaliseMarginAmount(marginAmountInput),
                                                TargetSet(targetTickers)),
                                 MaxRows(maxRowsPerTicker)))

----------------------------------------------------------------------------
(* The calls: each action is one call of an exported function with inputs  *)
(* drawn from a bounded set; the state records the arguments and outcome.  *)
(* The functions read and write no module state, so a behaviour is one     *)
(* call made from the initial state.                                       *)

MaxDays == 4

NoMarginArgs ==
    [tradeValue |-> Undefined, marginRatio |-> Undefined, holdingDays |-> Undefined,
     marginInterestRate |-> Undefined, feeRate |-> Undefined, minimumFee |-> Undefined]

\* validateInputs was not called
NoValidation == [isValid |-> FALSE, errors |-> {}, sanitized |-> NoMarginArgs]

\* currentParams === null
NoParams == [nul |-> TRUE, ticker |-> "", marginAmount |-> Undefined]

\* selectedCells === {}
NoSelections == [id \in {} |-> [buy |-> 0, sell |-> 0]]

\* window.localStorage holds no catalogue
NoStorage == [present |-> FALSE, catalogue |-> <<>>]

\* an event record; nul marks a null entry, hasPrices an event with a prices map
Event(id, exDate, dividendPerShare, prices) ==
    [nul |-> FALSE, hasPrices |-> TRUE, id |-> id, exDate |-> exDate,
     dividendPerShare |-> dividendPerShare, prices |-> prices]

NullEvent ==
    [nul |-> TRUE, hasPrices |-> FALSE, id |-> NoId, exDate |-> "",
     dividendPerShare |-> Undefined, prices |-> <<>>]

NoPricesEvent ==
    [nul |-> FALSE, hasPrices |-> FALSE, id |-> StrId(<<"BEC", "1">>), exDate |-> "2024-01-02",
     dividendPerShare |-> Q(1, 10), prices |-> <<>>]

NoPnLArgs ==
    [row |-> NullEvent, buyOffset |-> 0, sellOffset |-> 0, capital |-> Undefined,
     rowAfter |-> NullEvent]

NoHighlightArgs ==
    [data |-> <<>>, capital |-> Undefined, targetTickers |-> {},
     maxRowsPerTicker |-> Undefined, dataAfter |-> <<>>]

\* the arguments of a call of computeAutoTradeHighlights as passed, and the
\* data array as the call leaves it
HighlightCall(data, capital, targetTickers, maxRowsPerTicker) ==
    [data |-> data, capital |-> capital, targetTickers |-> targetTickers,
     maxRowsPerTicker |-> maxRowsPerTicker, dataAfter |-> DataAfter(data)]

NoHighlights ==
    [thrown |-> FALSE, highlightMap |-> <<>>, topTrades |-> <<>>,
     averageBuyOffset |-> Null, averageSellOffset |-> Null]

\* no second call was made
NoRepeat == [made |-> FALSE]

TradeValues == {Z(0), Z(-100), Z(1000), Z(3300), Z(50000), NaN, Undefined}

MarginRatios == {Z(0), Q(-1, 10), Q(1, 4), Q(1, 2), Z(1), Q(3, 2), NaN, Undefined}

HoldingDayValues ==
    {Z(k) : k \in -1 .. MaxDays} \cup {Q(3, 2), StrNum(2, 1), Null, NaN, Undefined, PosInf}

InterestRates == {Undefined, Q(8, 100)}
FeeRates == {Undefined, Q(2, 1000)}
MinimumFees == {Undefined, Z(0)}

Init ==
    /\ pc = "idle"
    /\ mArgs = NoMarginArgs
    /\ mRet = Thrown("")
    /\ pArgs = NoPnLArgs
    /\ pRet = NullPnL
    /\ hArgs = NoHighlightArgs
    /\ hRet = NoHighlights
    /\ rRet = NoRepeat
    /\ vRet = NoValidation
    /\ gridData = <<>>
    /\ selectedCells = NoSelections
    /\ currentParams = NoParams
    /\ loading = FALSE
    /\ inflight = {}
    /\ issued = 0
    /\ snapshotCache = 0
    /\ snapshotPromise = 0
    /\ loads = <<>>
    /\ tickerCatalogueCache = 0
    /\ storage = NoStorage
    /\ arrays = <<>>
    /\ calls = <<>>

CallMargin ==
    /\ pc = "idle"
    /\ \E tv \in TradeValues, mr \in MarginRatios, hd \in HoldingDayValues,
          ir \in InterestRates, fr \in FeeRates, mf \in MinimumFees :
        /\ pc' = "margin"
        /\ mArgs' = [tradeValue |-> tv, marginRatio |-> mr, holdingDays |-> hd,
                     marginInterestRate |-> ir, feeRate |-> fr, minimumFee |-> mf]
        /\ mRet' = calculateSGXMarginCosts(tv, mr, hd, ir, fr, mf)
        /\ UNCHANGED <<pArgs, pRet, hArgs, hRet, rRet, vRet, pageVars, snapshotVars, catalogueVars>>

SpecMargin == Init /\ [][CallMargin]_vars

\* raw form values handed to validateInputs
RawTradeValues == {Z(0), Z(-100), Z(1000), StrNum(1000, 1), StrText, Undefined, NaN}
RawMarginRatios == {Z(0), Q(-1, 10), Q(1, 2), Z(1), Q(3, 2), StrNum(1, 2), Undefined}
RawHoldingDays ==
    {Z(k) : k \in -1 .. MaxDays}
    \cup {Q(3, 2), Q(-1, 2), StrNum(2, 1), Null, NaN, Undefined, PosInf}

\* validateInputs called on raw values
CallValidate ==
    /\ pc = "idle"
    /\ \E tv \in RawTradeValues, mr \in RawMarginRatios, hd \in RawHoldingDays,
          ir \in InterestRates, fr \in FeeRates, mf \in MinimumFees :
        /\ pc' = "validated"
        /\ mArgs' = [tradeValue |-> tv, marginRatio |-> mr, holdingDays |-> hd,
                     marginInterestRate |-> ir, feeRate |-> fr, minimumFee |-> mf]
        /\ vRet' = validateInputs(mArgs')
        /\ UNCHANGED <<mRet, pArgs, pRet, hArgs, hRet, rRet, pageVars, snapshotVars, catalogueVars>>

\* calculateSGXMarginCosts called with the sanitized values of a valid input
CallSanitized ==
    /\ pc = "validated"
    /\ vRet.isValid
    /\ pc' = "sanitized"
    /\ mRet' = calculateSGXMarginCosts(vRet.sanitized.tradeValue,
                    vRet.sanitized.marginRatio, vRet.sanitized.holdingDays,
                    vRet.sanitized.marginInterestRate, vRet.sanitized.feeRate,
                    vRet.sanitized.minimumFee)
    /\ UNCHANGED <<mArgs, pArgs, pRet, hArgs, hRet, rRet, vRet, pageVars, snapshotVars, catalogueVars>>

\* typeof x === 'number'
IsNumber(x) == x.t \in {"num", "nan", "inf"}

\* calculateSGXMarginCosts called with the numbers as they were entered
CallUnsanitized ==
    /\ pc = "validated"
    /\ IsNumber(mArgs.tradeValue)
    /\ IsNumber(mArgs.marginRatio)
    /\ IsNumber(mArgs.holdingDays)
    /\ pc' = "unsanitized"
    /\ mRet' = calculateSGXMarginCosts(mArgs.tradeValue, mArgs.marginRatio,
                    mArgs.holdingDays, mArgs.marginInterestRate, mArgs.feeRate,
                    mArgs.minimumFee)
    /\ UNCHANGED <<mArgs, pArgs, pRet, hArgs, hRet, rRet, vRet, pageVars, snapshotVars, catalogueVars>>

SpecValidate == Init /\ [][CallValidate \/ CallSanitized \/ CallUnsanitized]_vars

MaxPnLOffset == 3

\* raw values a price map can hold at D-1 and at D+1
BuyPriceValues ==
    {Undefined, Null, NaN, StrText, StrNum(105, 100), PosInf,
     Z(0), Z(-1), Z(1), Q(95, 100), Z(2000)}

SellPriceValues == {Undefined, NaN, StrText, Z(0), Z(-1), Z(1), Q(105, 100), Q(90, 100)}

DividendValues == {Undefined, NaN, Z(0), Q(1, 10)}

CapitalValues ==
    {Undefined, Null, NaN, StrText, StrNum(1000, 1), PosInf, NegInf,
     Z(0), Z(-5), Z(1000), Z(50000), Q(33005, 10)}

\* an event with prices at D-2 .. D+2 and none further out
PnLEvent(buy, sell, dividendPerShare) ==
    Event(StrId(<<"BEC", "1">>), "2024-01-02", dividendPerShare,
          [k \in {"D-2", "D-1", "D0", "D+1", "D+2"} |->
              CASE k = "D-2" -> Q(99, 100)
                [] k = "D-1" -> buy
                [] k = "D0" -> Z(1)
                [] k = "D+1" -> sell
                [] k = "D+2" -> Q(106, 100)])

PnLEvents ==
    {NullEvent, NoPricesEvent}
    \cup {PnLEvent(b, s, dv) : b \in BuyPriceValues, s \in SellPriceValues,
                               dv \in DividendValues}

CallPnL ==
    /\ pc = "idle"
    /\ \E row \in PnLEvents, buyOffset \in -MaxPnLOffset .. 1,
          sellOffset \in -1 .. MaxPnLOffset, capital \in CapitalValues :
        /\ pc' = "pnl"
        /\ pArgs' = [row |-> row, buyOffset |-> buyOffset, sellOffset |-> sellOffset,
                     capital |-> capital, rowAfter |-> EventAfter(row)]
        /\ pRet' = calculatePnLForOffsets(row, buyOffset, sellOffset, capital)
        /\ UNCHANGED <<mArgs, mRet, hArgs, hRet, rRet, vRet, pageVars, snapshotVars, catalogueVars>>

SpecPnL == Init /\ [][CallPnL]_vars

MaxEvents == 4
MaxMixed == 2

\* events of two tickers with different results, and malformed entries
RankBest ==
    Event(StrId(<<"bec", "1">>), "2024-01-02", Q(1, 10),
          [k \in {"D-1", "D+1"} |-> IF k = "D-1" THEN Z(1) ELSE Q(105, 100)])

RankMiddle ==
    Event(StrId(<<"bec", "2">>), "2024-04-02", Z(0),
          [k \in {"D-1", "D+1"} |-> IF k = "D-1" THEN Z(1) ELSE Q(105, 100)])

RankLow ==
    Event(StrId(<<"BEC", "3">>), "2024-07-02", Q(1, 10),
          [k \in {"D-2", "D+1"} |-> IF k = "D-2" THEN Z(1) ELSE Q(90, 100)])

RankOther ==
    Event(StrId(<<"d05", "1">>), "2024-02-05", Z(0),
          [k \in {"D-1", "D+2"} |-> IF k = "D-1" THEN Z(1) ELSE Q(110, 100)])

RankNoSell ==
    Event(StrId(<<"bec", "5">>), "2024-10-02", Q(1, 10),
          [k \in {"D-3", "D-1"} |-> Z(1)])

RankNumberId ==
    Event(NumberId, "2024-11-02", Q(1, 10),
          [k \in {"D-1", "D+1"} |-> IF k = "D-1" THEN Z(1) ELSE Q(105, 100)])

\* events that yield a trade
RankTrading == {RankBest, RankMiddle, RankLow, RankOther}

RankEvents == RankTrading \cup {RankNoSell, RankNumberId, NullEvent}

\* short lists that mix in the malformed events
RankShortLists == UNION {[1 .. n -> RankEvents] : n \in 0 .. MaxMixed}

\* lists of trading events, and the short mixed lists
RankLists == UNION {[1 .. n -> RankTrading] : n \in 0 .. MaxEvents} \cup RankShortLists

\* capital and target filter of a call, and its maxRowsPerTicker option
RankCapitalTargets ==
    {[capital |-> Undefined, targetTickers |-> {}],
     [capital |-> Z(1000), targetTickers |-> {}],
     [capital |-> Z(1000), targetTickers |-> {"bec"}]}
RankMaxRows == {Undefined, Z(1), Z(2)}
\* maxRowsPerTicker options at and below zero
RankEdgeMaxRows == {Z(0), Z(-1)}

\* single events with prices at the ends and next to the ex-date
ScanBuyPrices == {Undefined, Z(0), Q(1999, 200), Z(10)}
ScanSellPrices == {Undefined, StrText, Z(10), Q(2001, 200)}
ScanNearPrices == {Undefined, Z(10)}
ScanDividends == {Q(1, 10)}
ScanCapitals == {Undefined, Z(0), Z(5), Z(1000)}

ScanEvent(b10, b2, b1, s1, s2, s30, dividendPerShare) ==
    Event(StrId(<<"bec", "1">>), "2024-01-02", dividendPerShare,
          [k \in {"D-10", "D-2", "D-1", "D0", "D+1", "D+2", "D+30"} |->
              CASE k = "D-10" -> b10
                [] k = "D-2" -> b2
                [] k = "D-1" -> b1
                [] k = "D0" -> Z(20)
                [] k = "D+1" -> s1
                [] k = "D+2" -> s2
                [] k = "D+30" -> s30])

ScanEvents ==
    {ScanEvent(b10, b2, b1, s1, s2, s30, dv) :
        b10 \in ScanBuyPrices, b2 \in ScanNearPrices, b1 \in ScanBuyPrices,
        s1 \in ScanSellPrices, s2 \in ScanNearPrices, s30 \in ScanSellPrices,
        dv \in ScanDividends}

HighlightInputs ==
    {[data |-> d, capital |-> ct.capital, targetTickers |-> ct.targetTickers,
      maxRowsPerTicker |-> m] :
        d \in RankLists, ct \in RankCapitalTargets, m \in RankMaxRows}
    \cup
    {[data |-> d, capital |-> Undefined, targetTickers |-> {},
      maxRowsPerTicker |-> m] :
        d \in RankShortLists, m \in RankEdgeMaxRows}
    \cup
    {[data |-> <<e>>, capital |-> c, targetTickers |-> {}, maxRowsPerTicker |-> Undefined] :
        e \in ScanEvents, c \in ScanCapitals}

CallHighlights ==
    /\ pc = "idle"
    /\ \E in \in HighlightInputs :
        /\ pc' = "highlights"
        /\ hArgs' = HighlightCall(in.data, in.capital, in.targetTickers,
                                  in.maxRowsPerTicker)
        /\ hRet' = computeAutoTradeHighlights(in.data, in.capital,
                       in.targetTickers, in.maxRowsPerTicker)
        /\ UNCHANGED <<mArgs, mRet, pArgs, pRet, rRet, vRet, pageVars, snapshotVars, catalogueVars>>

SpecHighlights == Init /\ [][CallHighlights]_vars

MaxShared == 3

\* a second dividend of the ticker and ex-date of RankBest: the same id and
\* prices, another amount
RankBestSpecial ==
    Event(StrId(<<"bec", "1">>), "2024-01-02", Q(2, 10),
          [k \in {"D-1", "D+1"} |-> IF k = "D-1" THEN Z(1) ELSE Q(105, 100)])

\* lists in which two events can carry one id
SharedIdLists ==
    UNION {[1 .. n -> {RankBest, RankBestSpecial, RankLow, RankOther}] :
              n \in 0 .. MaxShared}

\* computeAutoTradeHighlights called with a list in which ids can repeat
CallHighlightsSharedId ==
    /\ pc = "idle"
    /\ \E d \in SharedIdLists, m \in RankMaxRows :
        /\ pc' = "highlights"
        /\ hArgs' = HighlightCall(d, Undefined, {}, m)
        /\ hRet' = computeAutoTradeHighlights(d, Undefined, {}, m)
        /\ UNCHANGED <<mArgs, mRet, pArgs, pRet, rRet, vRet, pageVars, snapshotVars, catalogueVars>>

SpecSharedId == Init /\ [][CallHighlightsSharedId]_vars

\* calls that take a capital argument
SpecCapital == Init /\ [][CallPnL \/ CallHighlights]_vars

\* calculatePnLForOffsets called once more with the arguments of the call before
RepeatPnL ==
    /\ pc = "pnl"
    /\ pc' = "pnlAgain"
    /\ rRet' = [made |-> TRUE,
                ret |-> calculatePnLForOffsets(pArgs.row, pArgs.buyOffset,
                              pArgs.sellOffset, pArgs.capital)]
    /\ UNCHANGED <<mArgs, mRet, pArgs, pRet, hArgs, hRet, vRet, pageVars, snapshotVars, catalogueVars>>

\* computeAutoTradeHighlights called once more with the arguments of the call before
RepeatHighlights ==
    /\ pc = "highlights"
    /\ pc' = "highlightsAgain"
    /\ rRet' = [made |-> TRUE,
                ret |-> computeAutoTradeHighlights(hArgs.data, hArgs.capital,
                              hArgs.targetTickers, hArgs.maxRowsPerTicker)]
    /\ UNCHANGED <<mArgs, mRet, pArgs, pRet, hArgs, hRet, vRet, pageVars, snapshotVars, catalogueVars>>

\* each capital-taking call followed by the same call
SpecRepeat == Init /\ [][CallPnL \/ CallHighlights \/ RepeatPnL \/ RepeatHighlights]_vars

----------------------------------------------------------------------------
(* The analyzer page: handleFetchData, handleReset, handleEventTickerSelect, *)
(* handleCellSelect, the summary aggregates and the grid's calculatePnL.     *)
(* A selection is recorded by its offset (0: none); the column key of a      *)
(* selection is the key of the column with that offset.                      *)

MaxFetches == 3
MaxClickOffset == 1

\* the key of a grid column: `D${i >= 0 ? '+' : ''}${i}`
ColumnKey(offset) == SellKey(offset)

\* validateForm: the check of the margin amount
MarginAmountError(marginAmount) ==
    Falsy(marginAmount) \/ LtZero(ParseFloat(marginAmount))

\* parsedMarginAmount
parsedMarginAmount(params) ==
    IF params.nul \/ Falsy(params.marginAmount) THEN DEFAULT_MARGIN_AMOUNT
    ELSE IF IsFinite(ParseFloat(params.marginAmount))
            /\ ParseFloat(params.marginAmount).n > 0
         THEN ParseFloat(params.marginAmount)
         ELSE DEFAULT_MARGIN_AMOUNT

\* DataGrid.calculatePnL(row, buyOffset, sellOffset) for the marginAmount prop;
\* after its guard the body is the one of calculatePnLForOffsets, line by line
DataGridCalculatePnL(row, buyOffset, sellOffset, marginAmount) ==
    IF buyOffset = 0 \/ sellOffset = 0 \/ buyOffset >= 0 \/ sellOffset <= 0
    THEN NullPnL
    ELSE PnLForPrices(DividendAmount(row),
                      ParseFloat(PriceAt(row, BuyKey(buyOffset))),
                      ParseFloat(PriceAt(row, SellKey(sellOffset))),
                      Abs(sellOffset - buyOffset),
                      marginAmount)

\* selectedCells?.[row?.id] || {}
RowSelections(cells, id) ==
    IF id \in DOMAIN cells THEN cells[id] ELSE [buy |-> 0, sell |-> 0]

\* pnlData of a grid row
RowPnL(row, cells, params) ==
    DataGridCalculatePnL(row, RowSelections(cells, row.id).buy,
                         RowSelections(cells, row.id).sell,
                         parsedMarginAmount(params))

NoTotals ==
    [totalTradeFee |-> Z(0), totalMarginFee |-> Z(0),
     totalDividendReceived |-> Z(0), totalResult |-> Z(0)]

\* what the reducer adds for a row once the quantity is known to be positive
SummaryAmounts(dividendAmount, buyPrice, sellPrice, holdingDays, tradeValue, quantity) ==
    [tradeFeeTotal |-> Mul(Max(MINIMUM_FEE, Mul(tradeValue, BROKER_FEE_RATE)), Z(2)),
     marginFee |-> FinancingCostOr(
                       calculateSGXMarginCosts(tradeValue, PNL_MARGIN_RATIO,
                                               Z(holdingDays), Undefined,
                                               BROKER_FEE_RATE, MINIMUM_FEE),
                       NaN, holdingDays),
     dividendReceived |-> Mul(dividendAmount, Z(quantity)),
     priceDifferenceValue |-> Mul(Sub(sellPrice, buyPrice), Z(quantity))]

\* the totals after a row that is counted
AddAmounts(totals, a) ==
    [totalTradeFee |-> Add(totals.totalTradeFee, a.tradeFeeTotal),
     totalMarginFee |-> Add(totals.totalMarginFee, a.marginFee),
     totalDividendReceived |-> Add(totals.totalDividendReceived, a.dividendReceived),
     totalResult |-> Add(totals.totalResult,
                         PnLTotalCost(a.dividendReceived, a.tradeFeeTotal,
                                      a.marginFee, a.priceDifferenceValue))]

\* the row is counted: both prices are truthy and the quantity, computed from
\* parseFloat(currentParams.marginAmount), is a positive finite number
SummaryCounts(buyPrice, sellPrice, tradeValue) ==
    /\ ~Falsy(buyPrice) /\ ~Falsy(sellPrice)
    /\ IsFinite(buyPrice) /\ IsFinite(tradeValue)
    /\ Floor(Div(tradeValue, buyPrice)) > 0

\* one step of the reducer, for a row of gridData with both cells selected
SummaryStep(totals, dataRow, sel, tradeValue) ==
    IF SummaryCounts(ParseFloat(PriceAt(dataRow, ColumnKey(sel.buy))),
                     ParseFloat(PriceAt(dataRow, ColumnKey(sel.sell))), tradeValue)
    THEN AddAmounts(totals,
             SummaryAmounts(DividendAmount(dataRow),
                            ParseFloat(PriceAt(dataRow, ColumnKey(sel.buy))),
                            ParseFloat(PriceAt(dataRow, ColumnKey(sel.sell))),
                            Abs(sel.sell - sel.buy), tradeValue,
                            Floor(Div(tradeValue,
                                      ParseFloat(PriceAt(dataRow, ColumnKey(sel.buy)))))))
    ELSE totals

\* gridData?.find(d => d?.id === rowId): the index of the first such row, or 0
FindRow(data, rowId) ==
    IF \E i \in 1 .. Len(data) : data[i].id = rowId
    THEN CHOOSE i \in 1 .. Len(data) :
             /\ data[i].id = rowId
             /\ \A j \in 1 .. i - 1 : data[j].id # rowId
    ELSE 0

\* the reducer's callback for one key of selectedCells
SummaryRow(totals, data, cells, params, rowId) ==
    IF cells[rowId].buy # 0 /\ cells[rowId].sell # 0 /\ ~params.nul
       /\ FindRow(data, rowId) # 0
    THEN SummaryStep(totals, data[FindRow(data, rowId)], cells[rowId],
                     ParseFloat(params.marginAmount))
    ELSE totals

\* aggregates: Object.keys(selectedCells).reduce(...) over the keys ids
RECURSIVE Aggregates(_, _, _, _)
Aggregates(data, cells, params, ids) ==
    IF ids = {} THEN NoTotals
    ELSE SummaryRow(Aggregates(data, cells, params, ids \ {CHOOSE id \in ids : TRUE}),
                    data, cells, params, CHOOSE id \in ids : TRUE)

\* rawTicker.includes('.') ? rawTicker : `${rawTicker}.SI`
DottedTickers == {"AAA.SI", "BBB.SI"}
NormalizedTicker(rawTicker) ==
    IF rawTicker \in DottedTickers THEN rawTicker ELSE rawTicker \o ".SI"

\* a grid row as fetchSGXDividendData builds it
PageRow(ticker, exDate, dividendPerShare, prices) ==
    Event(StrId(<<ticker, exDate>>), exDate, dividendPerShare, prices)

\* the records the data set holds for a ticker
Records(ticker) ==
    IF ticker = "AAA.SI"
    THEN << PageRow(ticker, "20240102", Q(1, 10),
                [k \in {"D-2", "D-1", "D0", "D+1", "D+2"} |->
                    CASE k = "D-2" -> Q(99, 100) [] k = "D-1" -> Z(1)
                      [] k = "D0" -> Z(1) [] k = "D+1" -> Q(105, 100)
                      [] k = "D+2" -> Q(106, 100)]),
            PageRow(ticker, "20240603", Q(2, 10),
                [k \in {"D-2", "D-1", "D+1"} |->
                    CASE k = "D-2" -> Z(2) [] k = "D-1" -> Q(21, 10)
                      [] k = "D+1" -> Q(19, 10)]) >>
    ELSE << PageRow(ticker, "20240304", Z(0),
                [k \in {"D-1", "D+1", "D+2"} |->
                    CASE k = "D-1" -> Z(5) [] k = "D+1" -> Null
                      [] k = "D+2" -> Q(51, 10)]) >>

\* what the form can hold, and the tickers of the catalogue and the events table
FormMarginAmounts == {StrEmpty, StrNum(-5, 1), StrNum(0, 1), StrNum(1000, 1), StrNum(50000, 1)}
FormTickers == {"AAA", "BBB"}
EventTickers == {"AAA.SI", "BBB.SI"}

\* handleFetchData(params) up to its await, for a ticker that is not empty
HandleFetchData(ticker, marginAmount) ==
    /\ issued < MaxFetches
    /\ loading' = TRUE
    /\ currentParams' = [nul |-> FALSE, ticker |-> NormalizedTicker(ticker),
                         marginAmount |-> marginAmount]
    /\ inflight' = inflight \cup {[n |-> issued + 1, ticker |-> NormalizedTicker(ticker)]}
    /\ issued' = issued + 1
    /\ UNCHANGED <<gridData, selectedCells>>

\* ControlPanel.handleSubmit: validateForm, then onFetchData; the form's
\* inputs and buttons are disabled while loading
SubmitForm ==
    /\ pc \in {"idle", "page"}
    /\ ~loading
    /\ \E ticker \in FormTickers, marginAmount \in FormMarginAmounts :
        /\ ~MarginAmountError(marginAmount)
        /\ HandleFetchData(ticker, marginAmount)
    /\ pc' = "page"
    /\ UNCHANGED <<callVars, snapshotVars, catalogueVars>>

\* handleEventTickerSelect(ticker), directly or through the initialTicker effect
PickEventTicker ==
    /\ pc \in {"idle", "page"}
    /\ \E ticker \in EventTickers :
        HandleFetchData(ticker,
            IF currentParams.nul \/ currentParams.marginAmount.t \in {"undef", "null"}
            THEN StrNum(50000, 1) ELSE currentParams.marginAmount)
    /\ pc' = "page"
    /\ UNCHANGED <<callVars, snapshotVars, catalogueVars>>

\* the await of handleFetchData resolves with the records of the request
FetchResolve ==
    /\ pc = "page"
    /\ \E req \in inflight :
        /\ gridData' = Records(req.ticker)
        /\ inflight' = inflight \ {req}
    /\ selectedCells' = NoSelections
    /\ loading' = FALSE
    /\ pc' = "page"
    /\ UNCHANGED <<currentParams, issued, callVars, snapshotVars, catalogueVars>>

\* the await of handleFetchData rejects
FetchReject ==
    /\ pc = "page"
    /\ \E req \in inflight : inflight' = inflight \ {req}
    /\ gridData' = <<>>
    /\ loading' = FALSE
    /\ pc' = "page"
    /\ UNCHANGED <<selectedCells, currentParams, issued, callVars, snapshotVars, catalogueVars>>

\* handleReset, from the form's Reset button (disabled while loading)
HandleReset ==
    /\ pc = "page"
    /\ ~loading
    /\ gridData' = <<>>
    /\ selectedCells' = NoSelections
    /\ currentParams' = NoParams
    /\ pc' = "page"
    /\ UNCHANGED <<loading, inflight, issued, callVars, snapshotVars, catalogueVars>>

\* handleCellSelect(rowId, columnKey, action, offset) for action buy or sell
HandleCellSelect(rowId, action, offset) ==
    selectedCells' =
        [id \in DOMAIN selectedCells \cup {rowId} |->
            IF id = rowId
            THEN IF action = "buy"
                 THEN [buy |-> offset, sell |-> RowSelections(selectedCells, id).sell]
                 ELSE [buy |-> RowSelections(selectedCells, id).buy, sell |-> offset]
            ELSE selectedCells[id]]

\* DataGrid.handleCellClick(rowId, columnKey, offset) on a cell of a shown row
CellClick ==
    /\ pc = "page"
    /\ \E i \in 1 .. Len(gridData), offset \in -MaxClickOffset .. MaxClickOffset :
        IF offset > 0 THEN HandleCellSelect(gridData[i].id, "sell", offset)
        ELSE IF offset < 0 THEN HandleCellSelect(gridData[i].id, "buy", offset)
        ELSE UNCHANGED selectedCells
    /\ pc' = "page"
    /\ UNCHANGED <<gridData, currentParams, loading, inflight, issued, callVars, snapshotVars, catalogueVars>>

\* Escape: handleCellSelect(null, null, 'clear')
ClearSelections ==
    /\ pc = "page"
    /\ selectedCells' = NoSelections
    /\ pc' = "page"
    /\ UNCHANGED <<gridData, currentParams, loading, inflight, issued, callVars, snapshotVars, catalogueVars>>

PageNext ==
    \/ SubmitForm
    \/ PickEventTicker
    \/ FetchResolve
    \/ FetchReject
    \/ HandleReset
    \/ CellClick
    \/ ClearSelections

SpecPage == Init /\ [][PageNext]_vars

----------------------------------------------------------------------------
(* The data module: loadSnapshot. A load is numbered in the order it was    *)
(* started; the data a load stores is named by the number of the load.      *)
(* Stages: "csv" buildSnapshotFromCsv pending, "json" the fallback fetch    *)
(* pending, "stored" the load resolved, "failed" the load rejected.         *)

MaxLoads == 3

InFlight(n) == loads[n].stage \in {"csv", "json"}

\* loadSnapshot({ forceRefresh }) up to its return; a call that returns the
\* cache or the promise in flight changes nothing
LoadSnapshot(forceRefresh) ==
    IF ~forceRefresh /\ snapshotCache # 0
    THEN UNCHANGED snapshotVars
    ELSE IF ~forceRefresh /\ snapshotPromise # 0
    THEN UNCHANGED snapshotVars
    ELSE /\ Len(loads) < MaxLoads
         /\ snapshotCache' = IF forceRefresh THEN 0 ELSE snapshotCache
         /\ snapshotPromise' = Len(loads) + 1
         /\ loads' = Append(loads, [forced |-> forceRefresh, stage |-> "csv"])

CallLoadSnapshot ==
    /\ pc \in {"idle", "api"}
    /\ \E forceRefresh \in BOOLEAN : LoadSnapshot(forceRefresh)
    /\ pc' = "api"
    /\ UNCHANGED <<callVars, pageVars, catalogueVars>>

\* .then: buildSnapshotFromCsv resolved
CsvResolve ==
    /\ pc = "api"
    /\ \E n \in 1 .. Len(loads) :
        /\ loads[n].stage = "csv"
        /\ snapshotCache' = n
        /\ loads' = [loads EXCEPT ![n].stage = "stored"]
    /\ UNCHANGED <<pc, snapshotPromise, callVars, pageVars, catalogueVars>>

\* .catch: buildSnapshotFromCsv rejected, the bundled JSON is fetched
CsvReject ==
    /\ pc = "api"
    /\ \E n \in 1 .. Len(loads) :
        /\ loads[n].stage = "csv"
        /\ loads' = [loads EXCEPT ![n].stage = "json"]
    /\ UNCHANGED <<pc, snapshotCache, snapshotPromise, callVars, pageVars, catalogueVars>>

\* the fallback fetch answered with a snapshot
JsonResolve ==
    /\ pc = "api"
    /\ \E n \in 1 .. Len(loads) :
        /\ loads[n].stage = "json"
        /\ snapshotCache' = n
        /\ loads' = [loads EXCEPT ![n].stage = "stored"]
    /\ UNCHANGED <<pc, snapshotPromise, callVars, pageVars, catalogueVars>>

\* the fallback fetch failed: snapshotPromise = null, and the load rejects
JsonReject ==
    /\ pc = "api"
    /\ \E n \in 1 .. Len(loads) :
        /\ loads[n].stage = "json"
        /\ loads' = [loads EXCEPT ![n].stage = "failed"]
    /\ snapshotPromise' = 0
    /\ UNCHANGED <<pc, snapshotCache, callVars, pageVars, catalogueVars>>

SnapshotNext ==
    \/ CallLoadSnapshot
    \/ CsvResolve
    \/ CsvReject
    \/ JsonResolve
    \/ JsonReject

SpecSnapshot == Init /\ [][SnapshotNext]_vars

----------------------------------------------------------------------------
(* The data module: fetchTickerCatalogue. An array is a reference into      *)
(* arrays; a call records what it was given and what it returned.           *)

MaxCalls == 3

\* buildTickerCatalogueFromSnapshot(snapshot.tickers || []) for the data of load n
CatalogueOfLoad(n) ==
    CASE n = 1 -> <<"AAA", "BBB">>
      [] n = 2 -> <<>>
      [] OTHER -> <<"AAA">>

\* what `await loadSnapshot({ forceRefresh })` waits for: the cached snapshot,
\* the promise in flight, or the promise of the load it starts
Awaited(forceRefresh) ==
    IF ~forceRefresh /\ snapshotCache # 0
    THEN [load |-> snapshotCache, settled |-> TRUE]
    ELSE IF ~forceRefresh /\ snapshotPromise # 0
    THEN [load |-> snapshotPromise, settled |-> FALSE]
    ELSE [load |-> Len(loads) + 1, settled |-> FALSE]

\* mutant: the cached array itself is returned
SliceRef_Alias(ref) == ref

\* tickerCatalogueCache.slice(): the reference of the new array
SliceRef(ref) == Len(arrays) + 1

\* the record of a call
CatalogueCall(forceRefresh, stage, awaits, result, returned, startedLoad) ==
    [forceRefresh |-> forceRefresh, stage |-> stage, awaits |-> awaits,
     result |-> result, returned |-> returned, startedLoad |-> startedLoad,
     hadResolved |-> \E c \in 1 .. Len(calls) : calls[c].stage = "resolved",
     cachedThen |-> IF tickerCatalogueCache = 0 THEN <<>>
                    ELSE arrays[tickerCatalogueCache],
     loadFailed |-> FALSE, storedThen |-> <<>>]

\* fetchTickerCatalogue({ forceRefresh }) up to its first await or return
FetchTickerCatalogue ==
    /\ pc \in {"idle", "api"}
    /\ Len(calls) < MaxCalls
    /\ \E forceRefresh \in BOOLEAN :
        IF ~forceRefresh /\ tickerCatalogueCache # 0
        THEN /\ arrays' = Append(arrays, arrays[tickerCatalogueCache])
             /\ calls' = Append(calls,
                    CatalogueCall(forceRefresh, "resolved", Awaited(FALSE),
                                  SliceRef(tickerCatalogueCache),
                                  arrays[tickerCatalogueCache], FALSE))
             /\ UNCHANGED snapshotVars
        ELSE /\ LoadSnapshot(forceRefresh)
             /\ calls' = Append(calls,
                    CatalogueCall(forceRefresh, "waiting", Awaited(forceRefresh),
                                  0, <<>>, Len(loads') > Len(loads)))
             /\ UNCHANGED arrays
    /\ pc' = "api"
    /\ UNCHANGED <<tickerCatalogueCache, storage, callVars, pageVars>>

\* the await resolved: the try block runs to its return
CatalogueFromSnapshot ==
    /\ pc = "api"
    /\ \E c \in 1 .. Len(calls) :
        /\ calls[c].stage = "waiting"
        /\ calls[c].awaits.settled \/ loads[calls[c].awaits.load].stage = "stored"
        /\ tickerCatalogueCache' = Len(arrays) + 1
        /\ storage' = [present |-> TRUE,
                       catalogue |-> CatalogueOfLoad(calls[c].awaits.load)]
        /\ arrays' = arrays \o << CatalogueOfLoad(calls[c].awaits.load),
                                  CatalogueOfLoad(calls[c].awaits.load) >>
        /\ calls' = [calls EXCEPT ![c].stage = "resolved",
                                  ![c].result = Len(arrays) + 2,
                                  ![c].returned = CatalogueOfLoad(calls[c].awaits.load)]
    /\ UNCHANGED <<pc, snapshotVars, callVars, pageVars>>

\* the await rejected: the catch block runs to its return
CatalogueFromStorage ==
    /\ pc = "api"
    /\ \E c \in 1 .. Len(calls) :
        /\ calls[c].stage = "waiting"
        /\ ~calls[c].awaits.settled
        /\ loads[calls[c].awaits.load].stage = "failed"
        /\ tickerCatalogueCache' = Len(arrays) + 1
        /\ arrays' = arrays \o
              (IF storage.present /\ Len(storage.catalogue) > 0
               THEN << storage.catalogue, storage.catalogue >>
               ELSE << <<>>, <<>> >>)
        /\ calls' = [calls EXCEPT ![c].stage = "resolved",
                                  ![c].result = Len(arrays) + 2,
                                  ![c].returned = arrays'[Len(arrays) + 2],
                                  ![c].loadFailed = TRUE,
                                  ![c].storedThen = storage.catalogue]
    /\ UNCHANGED <<pc, storage, snapshotVars, callVars, pageVars>>

\* a caller changes a list it was given
MutateReturned ==
    /\ pc = "api"
    /\ \E c \in 1 .. Len(calls) :
        /\ calls[c].stage = "resolved"
        /\ \A k \in 1 .. Len(arrays[calls[c].result]) :
              arrays[calls[c].result][k] # "changed"
        /\ arrays' = [arrays EXCEPT ![calls[c].result] = Append(@, "changed")]
    /\ UNCHANGED <<pc, tickerCatalogueCache, storage, calls, snapshotVars,
                   callVars, pageVars>>

CatalogueNext ==
    \/ FetchTickerCatalogue
    \/ CatalogueFromSnapshot
    \/ CatalogueFromStorage
    \/ MutateReturned
    \/ CsvResolve
    \/ CsvReject
    \/ JsonResolve
    \/ JsonReject

SpecCatalogue == Init /\ [][CatalogueNext]_vars

Next ==
    \/ CallMargin
    \/ CallPnL
    \/ CallHighlights
    \/ CallHighlightsSharedId
    \/ CallValidate
    \/ CallSanitized
    \/ CallUnsanitized
    \/ RepeatPnL
    \/ RepeatHighlights
    \/ SubmitForm
    \/ PickEventTicker
    \/ FetchResolve
    \/ FetchReject
    \/ HandleReset
    \/ CellClick
    \/ ClearSelections
    \/ CallLoadSnapshot
    \/ CsvResolve
    \/ CsvReject
    \/ JsonResolve
    \/ JsonReject
    \/ FetchTickerCatalogue
    \/ CatalogueFromSnapshot
    \/ CatalogueFromStorage
    \/ MutateReturned

Spec == Init /\ [][Next]_vars

----------------------------------------------------------------------------
(* Claims about calculateSGXMarginCosts (checked under SpecMargin).        *)

NumPos(x) == x.t = "num" /\ x.n > 0
NumNonNeg(x) == x.t = "num" /\ x.n >= 0
NumIn01(x) == x.t = "num" /\ x.n >= 0 /\ x.n <= x.d

\* the call's inputs are the valid ones the contract names
MarginValidArgs ==
    /\ pc = "margin"
    /\ NumPos(mArgs.tradeValue)
    /\ NumIn01(mArgs.marginRatio)
    /\ NumNonNeg(mArgs.holdingDays)

SumOfReturnedParts == Add(Add(mRet.openFees, mRet.closeFees), mRet.financingCost)

PercentageOfReturnedTotal == Mul(Div(mRet.totalCost, mArgs.tradeValue), Z(100))

\* C1 as stated: on the returned values, totalCost = openFees + closeFees +
\* financingCost exactly and totalCostPercentage = totalCost / tradeValue * 100.
C1_ExactOnReturnedValues ==
    (MarginValidArgs /\ mRet.ok) =>
        /\ mRet.totalCost = SumOfReturnedParts
        /\ mRet.totalCostPercentage = PercentageOfReturnedTotal

\* C1 amended: every returned field is rounded on its own (2 decimals for money,
\* 4 for the percentage) from the unrounded values, so the returned totalCost is
\* within 0.01 of openFees + closeFees + financingCost as returned, and the
\* returned totalCostPercentage is within 0.00005 + 0.5 / tradeValue of the
\* returned totalCost / tradeValue * 100.
C1_EqualUpToRounding ==
    (MarginValidArgs /\ mRet.ok) =>
        /\ Le(AbsQ(Sub(mRet.totalCost, SumOfReturnedParts)), Q(1, 100))
        /\ Le(AbsQ(Sub(mRet.totalCostPercentage, PercentageOfReturnedTotal)),
              Add(Q(1, 20000), Div(Q(1, 2), mArgs.tradeValue)))

\* C1 witness: a valid call whose returned total differs from the sum of the
\* returned parts by a cent
C1_Witness ==
    /\ MarginValidArgs
    /\ mRet.ok
    /\ mRet.totalCost # SumOfReturnedParts
    /\ mRet.financingCost.n > 0

IsExampleCall ==
    /\ pc = "margin"
    /\ mArgs = [tradeValue |-> Z(1000), marginRatio |-> Q(1, 2), holdingDays |-> Z(1),
                marginInterestRate |-> Undefined, feeRate |-> Undefined,
                minimumFee |-> Undefined]

\* x is y to the precision of y's last decimal place (k decimals)
Approx(x, y, k) == Le(AbsQ(Sub(x, y)), Q(1, 2 * Pow10(k)))

\* C2 as stated: the example call (1000, 0.5, 1 day, default rates) returns
\* financingCost ~ 0.0822, openFees = closeFees = 4.10 and totalCost ~ 8.28.
C2_ExampleAsStated ==
    IsExampleCall =>
        /\ mRet.ok
        /\ Approx(mRet.financingCost, Q(822, 10000), 4)
        /\ mRet.openFees = Q(410, 100)
        /\ mRet.closeFees = Q(410, 100)
        /\ Approx(mRet.totalCost, Q(828, 100), 2)

\* C2 amended: the example call returns financingCost = 0.08 (500 * 0.06 / 365 =
\* 0.0822 rounded to two decimals; 0.0822 is the returned dailyInterest),
\* openFees = closeFees = 4.10 and totalCost = 8.28.
C2_ExampleRounded ==
    IsExampleCall =>
        /\ mRet.ok
        /\ mRet.financingCost = Q(8, 100)
        /\ mRet.dailyInterest = Q(822, 10000)
        /\ mRet.openFees = Q(410, 100)
        /\ mRet.closeFees = Q(410, 100)
        /\ mRet.totalCost = Q(828, 100)
        /\ mRet = getExampleCalculation

\* C2 witness: the example call was made and returned a breakdown
C2_Witness == IsExampleCall /\ mRet.ok /\ mRet.borrowed = Z(500)

\* C3: the calculator throws when tradeValue <= 0, when marginRatio < 0 or > 1
\* and when holdingDays < 0, whatever the other arguments are.
C3_InvalidInputThrows ==
    (/\ pc = "margin"
     /\ \/ mArgs.tradeValue.t = "num" /\ mArgs.tradeValue.n <= 0
        \/ mArgs.marginRatio.t = "num" /\ ~NumIn01(mArgs.marginRatio)
        \/ mArgs.holdingDays.t = "num" /\ mArgs.holdingDays.n < 0)
    => (~mRet.ok /\ mRet.err # "" /\ mRet.totalCost = Undefined)

\* C3 witness: negative holdingDays alone made the call throw
C3_Witness ==
    /\ pc = "margin"
    /\ NumPos(mArgs.tradeValue)
    /\ NumIn01(mArgs.marginRatio) /\ mArgs.marginRatio.n > 0
    /\ mArgs.holdingDays = Z(-1)
    /\ ~mRet.ok

\* C4 as stated: with tradeValue > 0 and holdingDays >= 0 the calculator accepts
\* exactly the marginRatio values in [0,1], bounds included, and for
\* marginRatio = 0 returns borrowed = 0 and financingCost = 0.
C4_RatioClosedInterval ==
    (/\ pc = "margin"
     /\ NumPos(mArgs.tradeValue)
     /\ NumNonNeg(mArgs.holdingDays)
     /\ mArgs.marginRatio.t = "num")
    => /\ mRet.ok <=> NumIn01(mArgs.marginRatio)
       /\ mArgs.marginRatio.n = 0 => (mRet.borrowed = Z(0) /\ mRet.financingCost = Z(0))

----------------------------------------------------------------------------
(* Claims about calculatePnLForOffsets (checked under SpecPnL).            *)

\* the raw price stored in the event under an offset, as the contract names it:
\* key "D-k" for a negative offset, "D+k" for a positive one
RawPriceAtOffset(row, offset) ==
    LET key == IF offset < 0 THEN "D-" \o ToString(-offset)
               ELSE "D+" \o ToString(offset)
    IN  IF row.nul \/ ~row.hasPrices \/ key \notin DOMAIN row.prices
        THEN Undefined
        ELSE row.prices[key]

\* the price is present and finite (a number, or a numeral string)
PricePresent(raw) == raw.t = "num" \/ (raw.t = "str" /\ raw.d > 0)

PriceValue(raw) == [t |-> "num", n |-> raw.n, d |-> raw.d]

\* capital is absent, not a number, non-finite, zero or negative
CapitalInvalid(capital) ==
    \/ capital.t \in {"undef", "null", "nan", "inf"}
    \/ capital.t = "str" /\ capital.d = 0
    \/ capital.t \in {"num", "str"} /\ capital.d > 0 /\ capital.n <= 0

\* the capital the contract computes with
EffectiveCapital(capital) ==
    IF CapitalInvalid(capital) THEN Z(50000) ELSE PriceValue(capital)

PnLSignsOk == pc = "pnl" /\ pArgs.buyOffset < 0 /\ pArgs.sellOffset > 0

\* C5: calculatePnLForOffsets returns null whenever buyOffset >= 0 or
\* sellOffset <= 0, for every event (a null event too), price map and capital.
C5_BadOffsetsGiveNull ==
    (pc = "pnl" /\ (pArgs.buyOffset >= 0 \/ pArgs.sellOffset <= 0)) => pRet.nul

\* C5 witness: a buy offset of 0 with otherwise tradeable inputs returned null
C5_Witness ==
    /\ pc = "pnl"
    /\ pArgs.buyOffset = 0
    /\ pArgs.sellOffset = 1
    /\ ~pArgs.row.nul
    /\ PricePresent(RawPriceAtOffset(pArgs.row, 1))
    /\ pArgs.capital = Z(1000)
    /\ pRet.nul

\* the conditions under which the contract says no trade exists
PnLNoTrade ==
    LET rawBuy == RawPriceAtOffset(pArgs.row, pArgs.buyOffset)
        rawSell == RawPriceAtOffset(pArgs.row, pArgs.sellOffset)
    IN  \/ ~PricePresent(rawBuy)
        \/ ~PricePresent(rawSell)
        \/ rawBuy.n <= 0
        \/ Floor(Div(EffectiveCapital(pArgs.capital), PriceValue(rawBuy))) <= 0

\* C6: with offsets of the right sign the result is null exactly when the buy or
\* the sell price is absent or non-finite, or the buy price is <= 0, or
\* floor(capital / buyPrice) <= 0; otherwise it is a breakdown.
C6_NullExactlyWhenNoTrade ==
    PnLSignsOk => (pRet.nul <=> PnLNoTrade)

\* C6 witness: a quantity of 0 (buy price above the capital) returned null
C6_Witness ==
    /\ PnLSignsOk
    /\ PricePresent(RawPriceAtOffset(pArgs.row, pArgs.buyOffset))
    /\ PricePresent(RawPriceAtOffset(pArgs.row, pArgs.sellOffset))
    /\ RawPriceAtOffset(pArgs.row, pArgs.buyOffset) = Z(2000)
    /\ pArgs.capital = Z(1000)
    /\ pRet.nul

\* dividendPerShare, 0 if unknown
KnownDividend(row) ==
    IF row.dividendPerShare.t = "num" THEN row.dividendPerShare ELSE Z(0)

IsScenarioCall ==
    /\ pc = "pnl"
    /\ pArgs.row = PnLEvent(Z(1), Q(105, 100), Q(1, 10))
    /\ pArgs.buyOffset = -1
    /\ pArgs.sellOffset = 1
    /\ pArgs.capital = Z(1000)

\* C7: every non-null result has quantity = floor(capital / buyPrice),
\* holdingDays = |sellOffset - buyOffset|, dividendReceived = dividendPerShare *
\* quantity, priceDifferenceValue = (sellPrice - buyPrice) * quantity, totalCost =
\* dividendReceived - tradeFee - marginFee + priceDifferenceValue and
\* netPercentage = totalCost / capital * 100; the scenario (dividend 0.10, D-1 =
\* 1.00, D+1 = 1.05, capital 1000) gives quantity 1000, dividendReceived 100,
\* priceDifferenceValue 50, holdingDays 2, tradeFee 8.20, totalCost ~ 141.64.
C7_BreakdownFormulas ==
    /\ (pc = "pnl" /\ ~pRet.nul) =>
        LET capital == EffectiveCapital(pArgs.capital)
            buy == PriceValue(RawPriceAtOffset(pArgs.row, pArgs.buyOffset))
            sell == PriceValue(RawPriceAtOffset(pArgs.row, pArgs.sellOffset))
        IN  /\ pRet.quantity = Z(Floor(Div(capital, buy)))
            /\ pRet.holdingDays = Z(Abs(pArgs.sellOffset - pArgs.buyOffset))
            /\ pRet.dividendReceived = Mul(KnownDividend(pArgs.row), pRet.quantity)
            /\ pRet.priceDifferenceValue = Mul(Sub(sell, buy), pRet.quantity)
            /\ pRet.totalCost =
                 Add(Sub(Sub(pRet.dividendReceived, pRet.tradeFee), pRet.marginFee),
                     pRet.priceDifferenceValue)
            /\ pRet.netPercentage = Mul(Div(pRet.totalCost, capital), Z(100))
    /\ IsScenarioCall =>
        /\ ~pRet.nul
        /\ pRet.quantity = Z(1000)
        /\ pRet.dividendReceived = Z(100)
        /\ pRet.priceDifferenceValue = Z(50)
        /\ pRet.holdingDays = Z(2)
        /\ pRet.tradeFee = Q(820, 100)
        /\ Approx(pRet.totalCost, Q(14164, 100), 2)

\* C7 witness: a breakdown with a negative price difference
C7_Witness ==
    /\ pc = "pnl"
    /\ ~pRet.nul
    /\ pRet.priceDifferenceValue.n < 0
    /\ pRet.dividendReceived.n > 0

----------------------------------------------------------------------------
(* Claims about the capital argument (checked under SpecCapital).          *)

\* a highlight's percentage is taken of the capital c
HighlightsUseCapital(c) ==
    \A id \in DOMAIN hRet.highlightMap :
        hRet.highlightMap[id].netPercentage =
            Mul(Div(hRet.highlightMap[id].totalCost, c), Z(100))

\* a breakdown's quantity, fee and percentage are computed from the capital c
BreakdownUsesCapital(c) ==
    /\ pRet.quantity = Z(Floor(Div(c, pRet.buyPrice)))
    /\ pRet.perLegFee = Max(Q(410, 100), Mul(c, Q(127, 100000)))
    /\ pRet.netPercentage = Mul(Div(pRet.totalCost, c), Z(100))

\* C8: when the capital argument is absent, not a number, non-finite, zero or
\* negative, calculatePnLForOffsets and computeAutoTradeHighlights return exactly
\* what they return for capital = 50000; a finite capital > 0 is used unchanged.
C8_InvalidCapitalIsDefault ==
    /\ pc = "pnl" =>
        IF CapitalInvalid(pArgs.capital)
        THEN pRet = calculatePnLForOffsets(pArgs.row, pArgs.buyOffset,
                                           pArgs.sellOffset, Z(50000))
        ELSE ~pRet.nul => BreakdownUsesCapital(PriceValue(pArgs.capital))
    /\ pc = "highlights" =>
        IF CapitalInvalid(hArgs.capital)
        THEN hRet = computeAutoTradeHighlights(hArgs.data, Z(50000),
                                               hArgs.targetTickers,
                                               hArgs.maxRowsPerTicker)
        ELSE HighlightsUseCapital(PriceValue(hArgs.capital))

\* C8 witness: a capital of 0 gave a highlight sized for 50000
C8_Witness ==
    /\ pc = "highlights"
    /\ hArgs.capital = Z(0)
    /\ \E id \in DOMAIN hRet.highlightMap :
          hRet.highlightMap[id].quantity = Z(5000)

----------------------------------------------------------------------------
(* Claims about repeated calls (checked under SpecRepeat).                 *)

----------------------------------------------------------------------------
(* Claims about the highlighted pair (checked under SpecHighlights).       *)

\* the events of the call that received a highlight
HighlightedRows ==
    {hArgs.data[i] : i \in {j \in 1 .. Len(hArgs.data) :
        /\ ~hArgs.data[j].nul
        /\ hArgs.data[j].id \in DOMAIN hRet.highlightMap}}

BuyOffsets == MIN_OFFSET .. -1
SellOffsets == 1 .. MAX_OFFSET

\* C10 as stated: for every event that receives a highlight, no other pair with
\* buyOffset in -10..-1 and sellOffset in 1..30 for which calculatePnLForOffsets
\* is non-null has a strictly higher totalCost than the highlighted pair.
C10_BestByTotalCost ==
    (pc = "highlights" /\ ~hRet.thrown) =>
        \A row \in HighlightedRows :
            \A b \in BuyOffsets, s \in SellOffsets :
                (PricePresent(RawPriceAtOffset(row, b))
                 /\ PricePresent(RawPriceAtOffset(row, s))) =>
                    LET other == calculatePnLForOffsets(row, b, s, hArgs.capital)
                    IN  ~other.nul =>
                            ~Lt(hRet.highlightMap[row.id].totalCost, other.totalCost)

\* C10 amended: for every event that receives a highlight, the highlighted
\* buyOffset is an offset in -10..-1 whose price is the lowest available one, the
\* highlighted sellOffset is an offset in 1..30 whose price is the highest
\* available one, and the highlighted totalCost is the totalCost that
\* calculatePnLForOffsets returns for that one pair.
C10_LowestBuyHighestSell ==
    (pc = "highlights" /\ ~hRet.thrown) =>
        \A row \in HighlightedRows :
            LET h == hRet.highlightMap[row.id]
                buy == RawPriceAtOffset(row, h.buyOffset)
                sell == RawPriceAtOffset(row, h.sellOffset)
                trade == calculatePnLForOffsets(row, h.buyOffset, h.sellOffset,
                                                hArgs.capital)
            IN  /\ h.buyOffset \in BuyOffsets
                /\ h.sellOffset \in SellOffsets
                /\ PricePresent(buy)
                /\ PricePresent(sell)
                /\ \A b \in BuyOffsets :
                      PricePresent(RawPriceAtOffset(row, b)) =>
                          ~Lt(PriceValue(RawPriceAtOffset(row, b)), PriceValue(buy))
                /\ \A s \in SellOffsets :
                      PricePresent(RawPriceAtOffset(row, s)) =>
                          ~Lt(PriceValue(sell), PriceValue(RawPriceAtOffset(row, s)))
                /\ ~trade.nul
                /\ h.totalCost = trade.totalCost

\* C10 witness: the cheapest buy (D-10) was highlighted although a dearer buy
\* nearer the ex-date (D-1) was available too
C10_Witness ==
    /\ pc = "highlights"
    /\ \E row \in HighlightedRows :
          /\ hRet.highlightMap[row.id].buyOffset = -10
          /\ PricePresent(RawPriceAtOffset(row, -1))
          /\ Lt(PriceValue(RawPriceAtOffset(row, -10)),
                PriceValue(RawPriceAtOffset(row, -1)))
          /\ ~calculatePnLForOffsets(row, -1, hRet.highlightMap[row.id].sellOffset,
                                     hArgs.capital).nul

----------------------------------------------------------------------------
(* Claims about the kept highlights (checked under SpecHighlights).        *)
(* A kept highlight is a kept event: of the events of one ticker that      *)
(* yield a trade, those that come first by totalCost, earlier events       *)
(* first among equals.                                                     *)

\* the trade of every event of the call, by position in the list
EventTrades ==
    [i \in 1 .. Len(hArgs.data) |->
        IF RowSkipped(hArgs.data[i], TargetSet(hArgs.targetTickers)) THEN NoTrade
        ELSE BestTrade(hArgs.data[i], normaliseMarginAmount(hArgs.capital))]

\* the positions of the events that yield a trade
TradingEvents(trades) == {i \in DOMAIN trades : trades[i].found}

\* the events of the ticker of event i that yield a trade
SameTicker(trades, i) ==
    {j \in TradingEvents(trades) : trades[j].ticker = trades[i].ticker}

\* the events of the ticker of event i that come before it by totalCost
AheadOf(trades, i) ==
    {j \in SameTicker(trades, i) :
        \/ Lt(trades[i].pnl.totalCost, trades[j].pnl.totalCost)
        \/ (trades[j].pnl.totalCost = trades[i].pnl.totalCost /\ j < i)}

\* how many events of a ticker with n trading events are kept: the first
\* maxRowsPerTicker, and with a negative option all but the last ones
KeepCount(n) ==
    LET m == MaxRows(hArgs.maxRowsPerTicker)
    IN  IF m < 0 THEN (IF n + m < 0 THEN 0 ELSE n + m)
        ELSE IF m > n THEN n ELSE m

\* the positions of the kept events
KeptEventsOf(trades) ==
    {i \in TradingEvents(trades) :
        Cardinality(AheadOf(trades, i)) < KeepCount(Cardinality(SameTicker(trades, i)))}

KeptEvents == KeptEventsOf(EventTrades)

\* the tickers that have a highlight in the result
HighlightTickers == {TickerOf(id) : id \in DOMAIN hRet.highlightMap}

\* C11 as stated: for every event list and every maxRowsPerTicker value the
\* result holds at most maxRowsPerTicker highlights for any single ticker, and
\* topTrades has length <= 3 and <= the number of kept highlights.
C11_AtMostMaxRows ==
    (pc = "highlights" /\ ~hRet.thrown) =>
        /\ \A t \in HighlightTickers :
              Cardinality({id \in DOMAIN hRet.highlightMap : TickerOf(id) = t})
                  <= MaxRows(hArgs.maxRowsPerTicker)
        /\ Len(hRet.topTrades) <= TOP_TRADES
        /\ Len(hRet.topTrades) <= Cardinality(KeptEvents)

\* the sum of the buy (or sell) offsets of the events at the positions in S
RECURSIVE SumOverEvents(_, _, _)
SumOverEvents(trades, S, side) ==
    IF S = {} THEN 0
    ELSE LET i == CHOOSE x \in S : TRUE
         IN  (IF side = "buy" THEN trades[i].buyOffset ELSE trades[i].sellOffset)
             + SumOverEvents(trades, S \ {i}, side)

\* the unweighted mean of the offsets of the events at the positions in S
MeanOffset(trades, S, side) == Q(SumOverEvents(trades, S, side), Cardinality(S))

AveragesOf(trades, kept) ==
    /\ (kept = {}) <=> (DOMAIN hRet.highlightMap = {})
    /\ (hRet.averageBuyOffset = Null) <=> (kept = {})
    /\ (hRet.averageSellOffset = Null) <=> (kept = {})
    /\ kept # {} =>
          /\ hRet.averageBuyOffset = MeanOffset(trades, kept, "buy")
          /\ hRet.averageSellOffset = MeanOffset(trades, kept, "sell")

AveragesOfTrades(trades) == AveragesOf(trades, KeptEventsOf(trades))

\* C12: averageBuyOffset and averageSellOffset are null exactly when no highlight
\* was kept; otherwise each is the unweighted arithmetic mean of the buyOffset
\* (resp. sellOffset) of every kept highlight of every ticker, not only of the
\* three in topTrades.
C12_AveragesOverKept ==
    (pc = "highlights" /\ ~hRet.thrown) => AveragesOfTrades(EventTrades)

\* C12 witness: four highlights of two tickers were kept, and the mean buy
\* offset of the three in topTrades is not the mean of all four
C12_Witness ==
    /\ pc = "highlights"
    /\ ~hRet.thrown
    /\ Cardinality(DOMAIN hRet.highlightMap) = 4
    /\ Cardinality(HighlightTickers) = 2
    /\ Len(hRet.topTrades) = 3
    /\ hRet.averageBuyOffset.t = "num"
    /\ hRet.averageBuyOffset #
          Q(hRet.topTrades[1].buyOffset + hRet.topTrades[2].buyOffset
            + hRet.topTrades[3].buyOffset, 3)

\* the kept events whose totalCost is above c, and those at or above c
KeptAbove(trades, kept, c) == {i \in kept : Lt(c, trades[i].pnl.totalCost)}
KeptAtLeast(trades, kept, c) == {i \in kept : ~Lt(trades[i].pnl.totalCost, c)}

\* topTrades[k] has the k-th largest totalCost of the kept events
IsKthLargest(trades, kept, k) ==
    /\ Cardinality(KeptAbove(trades, kept, hRet.topTrades[k].totalCost)) < k
    /\ Cardinality(KeptAtLeast(trades, kept, hRet.topTrades[k].totalCost)) >= k

\* the five fields that a topTrades entry shares with a highlightMap entry
HighlightFields(top) ==
    [buyOffset |-> top.buyOffset, sellOffset |-> top.sellOffset,
     totalCost |-> top.totalCost, netPercentage |-> top.netPercentage,
     quantity |-> top.quantity]

GlobalTopOf(trades, kept) ==
    /\ Len(hRet.topTrades) = (IF Cardinality(kept) < 3 THEN Cardinality(kept) ELSE 3)
    /\ \A k \in 1 .. Len(hRet.topTrades) - 1 :
          ~Lt(hRet.topTrades[k].totalCost, hRet.topTrades[k + 1].totalCost)
    /\ \A k \in 1 .. Len(hRet.topTrades) : IsKthLargest(trades, kept, k)
    /\ \A i \in kept :
          \/ ~Lt(hRet.topTrades[Len(hRet.topTrades)].totalCost, trades[i].pnl.totalCost)
          \/ \E k \in 1 .. Len(hRet.topTrades) : hRet.topTrades[k].rowId = trades[i].rowId
    /\ \A k \in 1 .. Len(hRet.topTrades) :
          /\ hRet.topTrades[k].rowId \in DOMAIN hRet.highlightMap
          /\ hRet.highlightMap[hRet.topTrades[k].rowId]
                = HighlightFields(hRet.topTrades[k])

GlobalTopOfTrades(trades) == GlobalTopOf(trades, KeptEventsOf(trades))

\* C13 as stated: topTrades is the global top 3 of all kept highlights: it is
\* ordered by totalCost descending, every kept highlight not in topTrades has
\* totalCost <= the smallest totalCost in topTrades, and each topTrades entry
\* carries the same buyOffset, sellOffset, totalCost, netPercentage and quantity
\* as the highlightMap entry stored under its event id.
C13_GlobalTopThree ==
    (pc = "highlights" /\ ~hRet.thrown) => GlobalTopOfTrades(EventTrades)

\* a malformed event: a null entry, an event with no id or with an id that is
\* not a string, or an event with no prices map
Malformed(row) == row.nul \/ row.id.k # "str" \/ IdFalsy(row.id) \/ ~row.hasPrices

\* the list without its malformed events
WellFormedEvents(data) == SelectSeq(data, LAMBDA row : ~Malformed(row))

\* C14 as stated: computeAutoTradeHighlights never throws, for any event list:
\* malformed events are skipped silently, and the highlights, topTrades and
\* averages are those of the list without the malformed events.
C14_NeverThrows ==
    pc = "highlights" =>
        /\ ~hRet.thrown
        /\ hRet = computeAutoTradeHighlights(WellFormedEvents(hArgs.data), hArgs.capital,
                       hArgs.targetTickers, hArgs.maxRowsPerTicker)

----------------------------------------------------------------------------
(* Claims about the entries of the result (checked under SpecHighlights).  *)

\* the events of the call that carry the id
RowsOfId(id) ==
    {hArgs.data[i] : i \in {j \in 1 .. Len(hArgs.data) :
        ~hArgs.data[j].nul /\ hArgs.data[j].id = id}}

\* an entry with a buy before and a sell after the ex-date, at least one share,
\* from an event whose buy price is present, finite and positive and whose
\* sell price is present and finite
ValidEntry(id, buyOffset, sellOffset, quantity) ==
    /\ buyOffset \in BuyOffsets
    /\ sellOffset \in SellOffsets
    /\ buyOffset < 0 /\ 0 < sellOffset
    /\ quantity.t = "num" /\ quantity.d = 1 /\ quantity.n >= 1
    /\ \E row \in RowsOfId(id) :
          /\ PricePresent(RawPriceAtOffset(row, buyOffset))
          /\ RawPriceAtOffset(row, buyOffset).n > 0
          /\ PricePresent(RawPriceAtOffset(row, sellOffset))

\* C15: every entry of highlightMap and of topTrades has buyOffset < 0 <
\* sellOffset with buyOffset in -10..-1 and sellOffset in 1..30, has quantity
\* >= 1, and comes from a buy price that is present, finite and > 0 and a sell
\* price that is present and finite.
C15_EntriesAreValidTrades ==
    (pc = "highlights" /\ ~hRet.thrown) =>
        /\ \A id \in DOMAIN hRet.highlightMap :
              ValidEntry(id, hRet.highlightMap[id].buyOffset,
                         hRet.highlightMap[id].sellOffset,
                         hRet.highlightMap[id].quantity)
        /\ \A k \in 1 .. Len(hRet.topTrades) :
              ValidEntry(hRet.topTrades[k].rowId, hRet.topTrades[k].buyOffset,
                         hRet.topTrades[k].sellOffset, hRet.topTrades[k].quantity)

\* C15 witness: an entry at both ends of the offset range, of an event that
\* holds an unparsable price at D+1 and no price at D-2
C15_Witness ==
    /\ pc = "highlights"
    /\ ~hRet.thrown
    /\ Len(hRet.topTrades) = 1
    /\ hRet.topTrades[1].buyOffset = MIN_OFFSET
    /\ hRet.topTrades[1].sellOffset = MAX_OFFSET
    /\ hRet.topTrades[1].rowId \in DOMAIN hRet.highlightMap
    /\ \E row \in RowsOfId(hRet.topTrades[1].rowId) :
          /\ RawPriceAtOffset(row, 1) = StrText
          /\ RawPriceAtOffset(row, -2) = Undefined

----------------------------------------------------------------------------
(* Claims about the arguments after a call (checked under SpecCapital).    *)

\* the event kept its id, exDate, dividendPerShare and price map
SameEvent(before, after) ==
    /\ after.nul = before.nul
    /\ after.hasPrices = before.hasPrices
    /\ after.id = before.id
    /\ after.exDate = before.exDate
    /\ after.dividendPerShare = before.dividendPerShare
    /\ after.prices = before.prices

----------------------------------------------------------------------------
(* Claims about the fees of a breakdown (checked under SpecPnL).           *)

\* capital x 0.5 x 0.06 / 365 x holdingDays, with no rounding
UnroundedFinancingCost(capital, holdingDays) ==
    Mul(Div(Mul(Mul(capital, Q(1, 2)), Q(6, 100)), Z(365)), holdingDays)

\* C17 as stated: the margin fee that calculatePnLForOffsets subtracts in
\* totalCost is the unrounded financing cost capital x 0.5 x 0.06 / 365 x
\* holdingDays; the calculator's rounding to 2 decimals does not enter
\* totalCost or netPercentage.
C17_UnroundedMarginFee ==
    (pc = "pnl" /\ ~pRet.nul) =>
        LET fee == UnroundedFinancingCost(EffectiveCapital(pArgs.capital),
                                          pRet.holdingDays)
            total == Add(Sub(Sub(pRet.dividendReceived, pRet.tradeFee), fee),
                         pRet.priceDifferenceValue)
        IN  /\ pRet.marginFee = fee
            /\ pRet.totalCost = total
            /\ pRet.netPercentage
                  = Mul(Div(total, EffectiveCapital(pArgs.capital)), Z(100))

\* the margin cost calculator called with tradeValue = capital, marginRatio =
\* 0.5, the holdingDays of the breakdown and the default rate and fee parameters
CalculatorForBreakdown ==
    calculateSGXMarginCosts(EffectiveCapital(pArgs.capital), Q(1, 2), pRet.holdingDays,
                            Undefined, Undefined, Undefined)

FeesAsReturned(costs) ==
    /\ costs.ok
    /\ pRet.tradeFee = Add(costs.openFees, costs.closeFees)
    /\ pRet.marginFee = costs.financingCost

\* C18 as stated: for every non-null result, tradeFee equals openFees +
\* closeFees and marginFee equals financingCost as returned by the margin cost
\* calculator called with tradeValue = capital, marginRatio = 0.5, the same
\* holdingDays and the default rate and fee parameters.
C18_FeesFromCalculator ==
    (pc = "pnl" /\ ~pRet.nul) => FeesAsReturned(CalculatorForBreakdown)

FeesUpToRounding(costs) ==
    /\ costs.ok
    /\ pRet.marginFee = costs.financingCost
    /\ pRet.perLegFee = Max(Q(410, 100),
                            Mul(EffectiveCapital(pArgs.capital), Q(127, 100000)))
    /\ pRet.tradeFee = Mul(pRet.perLegFee, Z(2))
    /\ costs.openFees = ToFixed(pRet.perLegFee, 2)
    /\ costs.closeFees = ToFixed(pRet.perLegFee, 2)
    /\ Le(AbsQ(Sub(pRet.tradeFee, Add(costs.openFees, costs.closeFees))), Q(1, 100))

\* C18 amended: for every non-null result, marginFee equals financingCost as
\* returned by the calculator called with tradeValue = capital, marginRatio =
\* 0.5, the same holdingDays and the default parameters; tradeFee is computed by
\* calculatePnLForOffsets itself as 2 x max(4.10, capital x 0.00127) with no
\* rounding, while the calculator returns each leg rounded to 2 decimals, so
\* tradeFee equals openFees + closeFees only to within 0.01.
C18_FeesUpToRounding ==
    (pc = "pnl" /\ ~pRet.nul) => FeesUpToRounding(CalculatorForBreakdown)

\* C18 witness: a breakdown whose tradeFee is not the sum of the two rounded legs
C18_Witness ==
    /\ pc = "pnl"
    /\ ~pRet.nul
    /\ pRet.holdingDays.n > 0
    /\ pRet.marginFee.n > 0
    /\ pRet.tradeFee # Add(CalculatorForBreakdown.openFees,
                           CalculatorForBreakdown.closeFees)

\* the margin fee of the breakdown had the calculator thrown in the call:
\* the value the catch block assigns for the capital and holdingDays of the call
MarginFeeWhenCalculatorThrows ==
    FinancingCostOr(Thrown("Holding days must be greater than or equal to 0"),
                    EffectiveCapital(pArgs.capital), pRet.holdingDays.n)

----------------------------------------------------------------------------
(* Claims about the buy point (checked under SpecHighlights).              *)

\* the offsets in -10..-1 at which the event has a present, finite price
AvailableBuys(row) == {b \in BuyOffsets : PricePresent(RawPriceAtOffset(row, b))}

\* offset is the buy point of the event: its price is present and the lowest
\* available one, and no offset nearer the ex-date has the same price
IsBuyPoint(row, offset) ==
    /\ offset \in AvailableBuys(row)
    /\ \A b \in AvailableBuys(row) :
          /\ ~Lt(PriceValue(RawPriceAtOffset(row, b)),
                 PriceValue(RawPriceAtOffset(row, offset)))
          /\ PriceValue(RawPriceAtOffset(row, b))
                = PriceValue(RawPriceAtOffset(row, offset)) => b <= offset

\* the scan of an event finds a buy point exactly when a price is available
ScanFindsBuyPoint(row, lowestBuy) ==
    /\ lowestBuy.found <=> (AvailableBuys(row) # {})
    /\ lowestBuy.found => IsBuyPoint(row, lowestBuy.offset)

\* C20: for every event the buy point chosen by computeAutoTradeHighlights is
\* the offset in -10..-1 with the lowest available (present, finite) price, and
\* among several offsets with that price the one closest to the ex-date, i.e.
\* the largest of them; an offset whose price is absent is never chosen.
C20_BuyPointLowestNearest ==
    (pc = "highlights" /\ ~hRet.thrown) =>
        /\ \A i \in 1 .. Len(hArgs.data) :
              ~hArgs.data[i].nul =>
                  ScanFindsBuyPoint(hArgs.data[i],
                      ScanOffsets(hArgs.data[i], Len(PRICE_OFFSETS)).lowestBuy)
        /\ \A row \in HighlightedRows :
              IsBuyPoint(row, hRet.highlightMap[row.id].buyOffset)

\* C20 witness: D-10 and D-1 hold the same lowest price, D-2 holds none, and the
\* highlight buys at D-1
C20_Witness ==
    /\ pc = "highlights"
    /\ ~hRet.thrown
    /\ \E row \in HighlightedRows :
          /\ hRet.highlightMap[row.id].buyOffset = -1
          /\ AvailableBuys(row) = {-10, -1}
          /\ PriceValue(RawPriceAtOffset(row, -10))
                = PriceValue(RawPriceAtOffset(row, -1))

----------------------------------------------------------------------------
(* Claims about the sell point (checked under SpecHighlights).             *)

\* the offsets in +1..+30 at which the event has a present, finite price
AvailableSells(row) == {o \in SellOffsets : PricePresent(RawPriceAtOffset(row, o))}

\* offset is the sell point of the event: its price is present and the highest
\* available one, and no offset nearer the ex-date has the same price
IsSellPoint(row, offset) ==
    /\ offset \in AvailableSells(row)
    /\ offset # 0
    /\ \A o \in AvailableSells(row) :
          /\ ~Lt(PriceValue(RawPriceAtOffset(row, offset)),
                 PriceValue(RawPriceAtOffset(row, o)))
          /\ PriceValue(RawPriceAtOffset(row, o))
                = PriceValue(RawPriceAtOffset(row, offset)) => offset <= o

\* the scan of an event finds a sell point exactly when a price is available
ScanFindsSellPoint(row, highestSell) ==
    /\ highestSell.found <=> (AvailableSells(row) # {})
    /\ highestSell.found => IsSellPoint(row, highestSell.offset)

\* C21: for every event the sell point chosen by computeAutoTradeHighlights is
\* the offset in +1..+30 with the highest available (present, finite) price, and
\* among several offsets with that price the one closest to the ex-date, i.e.
\* the smallest of them; offset 0 and offsets with an absent price are never
\* chosen.
C21_SellPointHighestNearest ==
    (pc = "highlights" /\ ~hRet.thrown) =>
        /\ \A i \in 1 .. Len(hArgs.data) :
              ~hArgs.data[i].nul =>
                  ScanFindsSellPoint(hArgs.data[i],
                      ScanOffsets(hArgs.data[i], Len(PRICE_OFFSETS)).highestSell)
        /\ \A row \in HighlightedRows :
              IsSellPoint(row, hRet.highlightMap[row.id].sellOffset)

\* C21 witness: D+1 and D+30 hold the same highest price, D+2 holds none, the
\* price at D0 is higher still, and the highlight sells at D+1
C21_Witness ==
    /\ pc = "highlights"
    /\ ~hRet.thrown
    /\ \E row \in HighlightedRows :
          /\ hRet.highlightMap[row.id].sellOffset = 1
          /\ AvailableSells(row) = {1, 30}
          /\ PriceValue(RawPriceAtOffset(row, 1))
                = PriceValue(RawPriceAtOffset(row, 30))
          /\ "D0" \in DOMAIN row.prices
          /\ Lt(PriceValue(RawPriceAtOffset(row, 1)), row.prices["D0"])

----------------------------------------------------------------------------
(* Claims about events without a trade (checked under SpecHighlights).     *)

\* calculatePnLForOffsets returns null for the buy and sell point of the event
ChosenPairIsNull(row, capital) ==
    \E b \in AvailableBuys(row) :
        /\ IsBuyPoint(row, b)
        /\ \E o \in AvailableSells(row) :
              /\ IsSellPoint(row, o)
              /\ calculatePnLForOffsets(row, b, o, capital).nul

\* the event has an id and a ticker, and lacks a buy point or a sell point, or
\* calculatePnLForOffsets returns null for its buy and sell point
WithoutTrade(row, capital) ==
    /\ ~row.nul
    /\ row.id.k = "str"
    /\ ~IdFalsy(row.id)
    /\ TickerOf(row.id) # ""
    /\ \/ AvailableBuys(row) = {}
       \/ AvailableSells(row) = {}
       \/ ChosenPairIsNull(row, capital)

\* for every position of the list, whether its event has no trade
EventsWithoutTrade ==
    [i \in 1 .. Len(hArgs.data) |-> WithoutTrade(hArgs.data[i], hArgs.capital)]

\* the list without the events at the marked positions
Unmarked(data, marked) ==
    IF \A i \in DOMAIN marked : ~marked[i] THEN data
    ELSE LET keep == {i \in DOMAIN marked : ~marked[i]}
             nth(k) == CHOOSE i \in keep : Cardinality({j \in keep : j < i}) = k - 1
         IN  [k \in 1 .. Cardinality(keep) |-> data[nth(k)]]

ContributesNothing(marked) ==
    /\ \A i \in DOMAIN marked :
          marked[i] =>
              /\ hArgs.data[i].id \notin DOMAIN hRet.highlightMap
              /\ \A k \in 1 .. Len(hRet.topTrades) :
                    hRet.topTrades[k].rowId # hArgs.data[i].id
    /\ (\E i \in DOMAIN marked : marked[i])
          => hRet = computeAutoTradeHighlights(Unmarked(hArgs.data, marked),
                        hArgs.capital, hArgs.targetTickers, hArgs.maxRowsPerTicker)

\* C22: an event that has no available price at any negative offset, or none at
\* any positive offset, or whose chosen pair makes calculatePnLForOffsets return
\* null, contributes nothing: it has no entry in highlightMap, is not in
\* topTrades, is not counted in the averages and takes none of the
\* maxRowsPerTicker places of its ticker, so the result is that of the list
\* without the event.
C22_NoTradeNoHighlight ==
    (pc = "highlights" /\ ~hRet.thrown) => ContributesNothing(EventsWithoutTrade)

\* C22 witness: with one place per ticker, an event without a sell point comes
\* first in the list and the event after it, of the same ticker, is highlighted
C22_Witness ==
    /\ pc = "highlights"
    /\ ~hRet.thrown
    /\ hArgs.maxRowsPerTicker = Z(1)
    /\ Len(hArgs.data) = 2
    /\ WithoutTrade(hArgs.data[1], hArgs.capital)
    /\ AvailableSells(hArgs.data[1]) = {}
    /\ ~hArgs.data[2].nul
    /\ hArgs.data[2].id \in DOMAIN hRet.highlightMap
    /\ TickerOf(hArgs.data[2].id) = TickerOf(hArgs.data[1].id)
    /\ hRet.averageBuyOffset = Z(hRet.highlightMap[hArgs.data[2].id].buyOffset)

----------------------------------------------------------------------------
(* Claims about the selection within a ticker (checked under               *)
(* SpecHighlights).                                                        *)

\* the event at position i has a highlight in the result
IsKept(trades, i) == trades[i].rowId \in DOMAIN hRet.highlightMap

\* the ticker of an event id: the part before the first '-', upper-cased
TickerOfId(id) == ToUpperCase(id.segs[1])

\* the trading events whose id has the ticker of the id of event i
OfSameTicker(trades, i) ==
    {j \in TradingEvents(trades) :
        TickerOfId(hArgs.data[j].id) = TickerOfId(hArgs.data[i].id)}

BestPerTicker(trades) ==
    \A i \in TradingEvents(trades) :
        /\ IsKept(trades, i) =>
              \A j \in OfSameTicker(trades, i) :
                  ~IsKept(trades, j) =>
                      ~Lt(hRet.highlightMap[trades[i].rowId].totalCost,
                          trades[j].pnl.totalCost)
        /\ Cardinality(OfSameTicker(trades, i)) <= MaxRows(hArgs.maxRowsPerTicker)
              => IsKept(trades, i)

\* C23: within each ticker (the part of the event id before the first '-',
\* upper-cased) the kept highlights are the events with the highest totalCost:
\* every kept event has totalCost >= the totalCost of the best trade of every
\* event of the ticker that was not kept, and when the ticker has at most
\* maxRowsPerTicker events with a trade, all of them are kept.
C23_BestOfEachTicker ==
    (pc = "highlights" /\ ~hRet.thrown) => BestPerTicker(EventTrades)

\* C23 witness: with two places per ticker, a ticker with three trading events
\* lost its lowest one, which stands first in the list, and the single event
\* of another ticker was kept
C23_Witness ==
    /\ pc = "highlights"
    /\ ~hRet.thrown
    /\ hArgs.maxRowsPerTicker = Z(2)
    /\ Len(hArgs.data) = 4
    /\ Cardinality(DOMAIN hRet.highlightMap) = 3
    /\ Cardinality(HighlightTickers) = 2
    /\ hArgs.data[1].id \notin DOMAIN hRet.highlightMap
    /\ \A i \in 2 .. 4 : hArgs.data[i].id \in DOMAIN hRet.highlightMap

----------------------------------------------------------------------------
(* Claims about the catch branch (checked under SpecCapital).              *)

\* the calculator accepts the arguments calculatePnLForOffsets passes for the
\* capital and the holding period
CalculatorAccepts(capital, days) ==
    /\ capital.t = "num" /\ capital.d > 0 /\ capital.n > 0
    /\ days >= 2
    /\ calculateSGXMarginCosts(capital, Q(1, 2), Z(days), Q(6, 100),
                               Q(127, 100000), Q(410, 100)).ok

\* C24: inside calculatePnLForOffsets the margin cost calculator never throws:
\* for every input with integer offsets that passes the null guards the
\* normalised capital is finite and > 0, marginRatio is 0.5 and holdingDays is
\* finite and >= 2, so the margin fee of the breakdown is the calculator's
\* financing cost and never the value of the catch branch; the same holds for
\* every call made by computeAutoTradeHighlights.
C24_CatchUnreachable ==
    /\ (pc = "pnl" /\ ~pRet.nul) =>
          /\ CalculatorAccepts(EffectiveCapital(pArgs.capital), pRet.holdingDays.n)
          /\ pRet.holdingDays.n = pArgs.sellOffset - pArgs.buyOffset
          /\ pRet.marginFee = CalculatorForBreakdown.financingCost
          /\ pRet.marginFee # MarginFeeWhenCalculatorThrows
    /\ (pc = "highlights" /\ ~hRet.thrown) =>
          \A id \in DOMAIN hRet.highlightMap :
              CalculatorAccepts(EffectiveCapital(hArgs.capital),
                                hRet.highlightMap[id].sellOffset
                                  - hRet.highlightMap[id].buyOffset)

\* C24 witness: a breakdown for the shortest holding period and a capital
\* argument that is not a number
C24_Witness ==
    /\ pc = "pnl"
    /\ ~pRet.nul
    /\ pArgs.capital = StrText
    /\ pRet.holdingDays = Z(2)
    /\ pRet.marginFee.n > 0

\* ---------------------------------------------------------------------------
\* C25

\* the three inputs the calculator checks are numbers
NumericInput(args) ==
    /\ IsNumber(args.tradeValue)
    /\ IsNumber(args.marginRatio)
    /\ IsNumber(args.holdingDays)

\* validateInputs reports an error on one of the three
CoreError(validation) ==
    validation.errors \cap {"tradeValue", "marginRatio", "holdingDays"} # {}

\* C25: validateInputs and calculateSGXMarginCosts agree on validity: when
\* validateInputs reports isValid = true the calculator called with the sanitized
\* values does not throw, and when it reports an error on tradeValue, marginRatio
\* or holdingDays of a numeric input the calculator throws.
C25_ValidatorAgrees ==
    /\ pc = "sanitized" => mRet.ok
    /\ (pc = "unsanitized" /\ NumericInput(mArgs) /\ CoreError(vRet)) => ~mRet.ok

\* C25, second half alone: an error on one of the three numeric inputs means
\* that the calculator throws
C25_ErrorMeansThrow ==
    (pc = "unsanitized" /\ NumericInput(mArgs) /\ CoreError(vRet)) => ~mRet.ok

\* C25 witness of the second half: a negative number of holding days is reported
\* by validateInputs and rejected by the calculator
C25_ErrorWitness ==
    /\ pc = "unsanitized"
    /\ mArgs.holdingDays = Z(-1)
    /\ vRet.errors = {"holdingDays"}
    /\ ~mRet.ok

\* C25: a valid input whose sanitized values the calculator accepts
C25_ValidAccepted ==
    pc = "sanitized" /\ mRet.ok

\* C25: a margin ratio of zero is valid for validateInputs and is rejected by
\* the calculator
C25_ZeroRatioRejected ==
    /\ pc = "sanitized"
    /\ vRet.sanitized.marginRatio = Z(0)
    /\ ~mRet.ok

\* ---------------------------------------------------------------------------
\* C26

\* both a buy and a sell cell of the row are selected
BothSelected(cells, id) ==
    RowSelections(cells, id).buy # 0 /\ RowSelections(cells, id).sell # 0

\* what the summary adds for the row is what the grid shows for it
SummaryMatchesGrid(pnlData, added) ==
    IF pnlData.nul THEN added = NoTotals
    ELSE /\ added.totalResult = pnlData.totalCost
         /\ added.totalTradeFee = pnlData.tradeFee
         /\ added.totalMarginFee = pnlData.marginFee

\* every row with both cells selected is summed as the grid shows it
SummaryFollowsGrid ==
    \A i \in 1 .. Len(gridData) :
        BothSelected(selectedCells, gridData[i].id) =>
            SummaryMatchesGrid(
                RowPnL(gridData[i], selectedCells, currentParams),
                SummaryRow(NoTotals, gridData, selectedCells, currentParams,
                           gridData[i].id))

\* C26: for a grid row with both a buy and a sell cell selected, the amount that
\* the page adds to totalResult, totalTradeFee and totalMarginFee equals the
\* totalCost, tradeFee and marginFee that DataGrid.calculatePnL shows for the
\* row, for every margin amount the form lets through, an entered 0 included;
\* a row for which the grid shows a P&L is never left out of the summary.
C26_SummaryEqualsGrid ==
    (~currentParams.nul /\ ~MarginAmountError(currentParams.marginAmount)) =>
        SummaryFollowsGrid

\* C26 for the amounts that are positive numbers
C26_PositiveAmounts ==
    (~currentParams.nul /\ ParseFloat(currentParams.marginAmount).t = "num"
        /\ ParseFloat(currentParams.marginAmount).n > 0) =>
        SummaryFollowsGrid

\* C26: a row whose P&L the grid shows is summed with the same three amounts
C26_RowSummed ==
    /\ ~currentParams.nul
    /\ \E i \in 1 .. Len(gridData) :
        /\ BothSelected(selectedCells, gridData[i].id)
        /\ ~RowPnL(gridData[i], selectedCells, currentParams).nul
        /\ Aggregates(gridData, selectedCells, currentParams, DOMAIN selectedCells)
               .totalResult
           = RowPnL(gridData[i], selectedCells, currentParams).totalCost

\* C26: the entered amount is 0, the grid shows a P&L for the row and the
\* summary leaves the row out
C26_ZeroAmountLeftOut ==
    /\ ~currentParams.nul
    /\ currentParams.marginAmount = StrNum(0, 1)
    /\ \E i \in 1 .. Len(gridData) :
        /\ BothSelected(selectedCells, gridData[i].id)
        /\ ~RowPnL(gridData[i], selectedCells, currentParams).nul
        /\ Aggregates(gridData, selectedCells, currentParams, DOMAIN selectedCells)
           = NoTotals

\* ---------------------------------------------------------------------------
\* C27

\* a load started by a forceRefresh call has stored its data
RefreshStored(n) == loads[n].forced /\ loads[n].stage = "stored"

\* C27: loadSnapshot never lets an older load overwrite a newer one: once a load
\* started by a forceRefresh call has stored its data, snapshotCache does not
\* hold the data of a load started before it, and while the newest load,
\* started by a forceRefresh call, is in flight snapshotPromise is its promise.
C27_NewerLoadWins ==
    /\ \A n \in 1 .. Len(loads) :
          (RefreshStored(n) /\ snapshotCache # 0) => snapshotCache >= n
    /\ (Len(loads) > 0 /\ loads[Len(loads)].forced /\ InFlight(Len(loads))) =>
          snapshotPromise = Len(loads)

\* C27: the data of an older load replaced the data stored by a refresh
C27_OlderOverwrites ==
    \E n \in 1 .. Len(loads) :
        RefreshStored(n) /\ snapshotCache # 0 /\ snapshotCache < n

\* C27: the failure of an older load cleared the promise of the refresh that
\* is still in flight
C27_PromiseCleared ==
    /\ Len(loads) > 1
    /\ loads[Len(loads)].forced
    /\ InFlight(Len(loads))
    /\ snapshotPromise = 0

\* ---------------------------------------------------------------------------
\* C28

\* the list holds an item that a caller added
Changed(list) == \E k \in 1 .. Len(list) : list[k] = "changed"

\* a call whose snapshot load failed returned the stored catalogue, or []
FailureFallsBack(call) ==
    call.loadFailed =>
        /\ call.stage = "resolved"
        /\ call.returned = IF Len(call.storedThen) > 0 THEN call.storedThen ELSE <<>>

\* a call without forceRefresh made after some call had resolved returned at
\* once a copy of the list cached then, and started no load
ServedFromCache(call) ==
    (~call.forceRefresh /\ call.hadResolved) =>
        /\ call.stage = "resolved"
        /\ ~call.startedLoad
        /\ ~call.loadFailed
        /\ call.returned = call.cachedThen
        /\ call.result # tickerCatalogueCache

\* C28: fetchTickerCatalogue never rejects: when the snapshot load fails it
\* resolves to the catalogue in browser storage if that is non-empty, else to
\* an empty list; once any call has resolved, every later call without
\* forceRefresh returns a copy of the cached list without starting a snapshot
\* load, also when the cached list is empty, and no list a call returns shows
\* a change that a caller made to a list returned before.
C28_CatalogueCached ==
    \A c \in 1 .. Len(calls) :
        /\ calls[c].stage \in {"waiting", "resolved"}
        /\ FailureFallsBack(calls[c])
        /\ ServedFromCache(calls[c])
        /\ ~Changed(calls[c].returned)

\* C28 witness: a call resolved to [] after a failed load, the caller changed
\* that list, and a later call without forceRefresh was served [] from the
\* cache without a load
C28_Witness ==
    \E c1, c2 \in 1 .. Len(calls) :
        /\ c1 < c2
        /\ calls[c1].loadFailed
        /\ calls[c1].returned = <<>>
        /\ Changed(arrays[calls[c1].result])
        /\ ~calls[c2].forceRefresh
        /\ calls[c2].hadResolved
        /\ calls[c2].stage = "resolved"
        /\ calls[c2].returned = <<>>
        /\ Len(loads) = 1

\* ---------------------------------------------------------------------------
\* C29

\* the ids of the rows in gridData
GridIds == {gridData[i].id : i \in 1 .. Len(gridData)}

\* every recorded buy has a negative offset and every recorded sell a positive
\* one; a row holds one buy and one sell at most, each being a single offset
SelectionsSigned ==
    \A id \in DOMAIN selectedCells :
        /\ selectedCells[id].buy <= 0
        /\ selectedCells[id].sell >= 0
        /\ selectedCells[id].buy # 0 \/ selectedCells[id].sell # 0

\* C29: after any sequence of cell clicks, clears, fetches that succeed or fail,
\* and resets, every row id present in selectedCells is the id of a row in
\* gridData, every recorded buy selection has a negative offset and every sell
\* selection a positive offset, and each row holds at most one buy and one sell.
C29_SelectionsValid ==
    /\ DOMAIN selectedCells \subseteq GridIds
    /\ SelectionsSigned

\* C29, the part about offsets alone
C29_OffsetsSigned == SelectionsSigned

\* C29: a fetch failed and emptied the grid while selections are recorded
C29_StaleSelections ==
    /\ gridData = <<>>
    /\ DOMAIN selectedCells # {}
    /\ inflight = {}

\* C29: both cells of a row of the grid are selected
C29_RowSelected ==
    \E id \in DOMAIN selectedCells :
        id \in GridIds /\ selectedCells[id].buy < 0 /\ selectedCells[id].sell > 0

\* ---------------------------------------------------------------------------
\* C30

\* no fetch is in flight
AllSettled == inflight = {}

\* C30: when fetches overlap or a reset happens while a fetch is in flight, then
\* once every fetch has settled gridData holds the records of the request whose
\* parameters are in currentParams (or nothing, if that request failed),
\* gridData is empty if currentParams was reset to null after that request, and
\* loading is false only when no fetch is in flight.
C30_LastRequestWins ==
    /\ (AllSettled /\ ~currentParams.nul) =>
          gridData \in {Records(currentParams.ticker), <<>>}
    /\ (AllSettled /\ currentParams.nul) => gridData = <<>>
    /\ ~loading => AllSettled

\* C30: every fetch has settled and the grid shows the records of a request
\* that was issued before the one in currentParams
C30_OlderRecordsShown ==
    /\ AllSettled
    /\ ~currentParams.nul
    /\ gridData # <<>>
    /\ gridData # Records(currentParams.ticker)

\* C30: every fetch has settled and the grid shows records after a reset
C30_RecordsAfterReset ==
    /\ AllSettled
    /\ currentParams.nul
    /\ gridData # <<>>

\* C30: loading is false while a fetch is in flight
C30_IdleWhileInFlight ==
    /\ ~loading
    /\ inflight # {}

====
